---- MODULE Spec2Model ----
(***************************************************************************)
(* Executor selection and dispatch of the CPU plugin's FullyConnected      *)
(* node: the ExecutorFactoryNew template (filter / select / create /      *)
(* preconfigure / make), the registered FullyConnected implementations,    *)
(* the precision translation tables, the compliance check and the cache    *)
(* of compiled oneDNN primitives.                                          *)
(***************************************************************************)
EXTENDS Integers, Sequences, FiniteSets, TLC

(***************************************************************************)
(* Element types and type masks (a mask is the set of types it admits).    *)
(***************************************************************************)
AllTypes == {"undefined", "bf16", "f16", "f32", "i4", "i8", "u4", "u8", "nf4"}

Any_ == AllTypes

HalfFloat_ == {"bf16", "f16"}

\* `!_i8` is the logical negation of a non-zero enumerator: the zero mask.
NotI8_ == {}

\* bool match(const TypeMask pattern, const Type value): pattern & value
match(pattern, value) == value \in pattern

\* bool match(vector<TypeMask> patterns, vector<Type> values): std::equal over values
matchAll(patterns, values) ==
    \A i \in 1..Len(values) : match(patterns[i], values[i])

(***************************************************************************)
(* Translation policies of precision_translation.hpp.  idx is 0-based as   *)
(* in the source; sequences are 1-based.                                   *)
(***************************************************************************)
\* policies whose bypass always passes the first input through
PolicyBypassFirstInput(p, inputs, output, idx) ==
    CASE p = "out"    -> output
      [] p = "in0"    -> inputs[1]
      [] p = "bypass" -> inputs[1]
      [] p = "f32"    -> "f32"

\* a policy set in which the "use input" policy answers the output type
PolicyInputAsOutput(p, inputs, output, idx) ==
    CASE p = "out"    -> output
      [] p = "in0"    -> output
      [] p = "bypass" -> inputs[idx + 1]
      [] p = "f32"    -> "f32"

Policy(p, inputs, output, idx) ==
    CASE p = "out"    -> output
      [] p = "in0"    -> inputs[1]
      [] p = "bypass" -> inputs[idx + 1]
      [] p = "f32"    -> "f32"

\* PortsTranslation<Src, Wei, Bias, Dst>::operator()
PortsTranslation(pt, inputs, output) ==
    [first  |-> << Policy(pt[1], inputs, output, 0),
                   Policy(pt[2], inputs, output, 1),
                   Policy(pt[3], inputs, output, 2) >>,
     second |-> Policy(pt[4], inputs, output, 0)]

Everyone(p) == << p, p, p, p >>

Rule(src, wei, bia, dst, pt) == [inMask |-> << src, wei, bia >>, outMask |-> dst, pt |-> pt]

dnnlFCTypeMapping ==
    << Rule({"bf16"}, {"bf16"}, Any_, {"bf16", "f32"},            << "bypass", "bypass", "out", "out" >>),
       Rule({"f16"}, {"f16"}, Any_, {"f16", "f32"},               << "bypass", "bypass", "out", "out" >>),
       Rule({"f32", "bf16", "f16"}, Any_, Any_, {"i8", "u8"},     << "bypass", "bypass", "in0", "in0" >>),
       Rule({"f32"}, HalfFloat_, Any_, Any_,                      << "bypass", "bypass", "in0", "in0" >>),
       Rule({"bf16"}, {"f16"}, Any_, Any_,                        << "bypass", "bypass", "in0", "in0" >>),
       Rule({"f16"}, {"bf16"}, Any_, Any_,                        << "bypass", "bypass", "in0", "in0" >>),
       Rule({"u8", "i8"}, {"i8"}, Any_, Any_,                     << "bypass", "bypass", "bypass", "out" >>),
       Rule({"f32", "bf16"}, {"u8", "nf4", "u4", "i4"}, Any_, Any_, << "bypass", "bypass", "in0", "in0" >>),
       Rule({"u8", "i8"}, NotI8_, Any_, Any_,                     Everyone("f32")),
       Rule(Any_, Any_, Any_, Any_,                               Everyone("f32")) >>

dnnlConvolutionTypeMapping ==
    << Rule({"bf16"}, {"bf16"}, Any_, {"bf16", "f32"},            << "bypass", "bypass", "out", "out" >>),
       Rule({"f16"}, {"f16"}, Any_, {"f16", "f32"},               << "bypass", "bypass", "out", "out" >>),
       Rule({"f32", "bf16", "f16"}, Any_, Any_, {"i8", "u8"},     << "bypass", "bypass", "in0", "in0" >>),
       Rule({"f32"}, HalfFloat_, Any_, Any_,                      << "bypass", "bypass", "in0", "in0" >>),
       Rule({"bf16"}, {"f16"}, Any_, Any_,                        << "bypass", "bypass", "in0", "in0" >>),
       Rule({"f16"}, {"bf16"}, Any_, Any_,                        << "bypass", "bypass", "in0", "in0" >>),
       Rule({"u8", "i8"}, {"i8"}, Any_, Any_,                     << "bypass", "bypass", "out", "out" >>),
       Rule(Any_, Any_, Any_, Any_,                               Everyone("f32")) >>

SrcPrecisions(descs) == [i \in 1..Len(descs.src) |-> descs.src[i].prec]

\* a lookup that applies the translation of the last entry that matches
ScanMappingLastMatch(mapping, k, inputs, output) ==
    LET ms == {j \in k..Len(mapping) :
                 matchAll(mapping[j].inMask, inputs) /\ match(mapping[j].outMask, output)}
    IN  IF ms = {}
        THEN [first |-> [i \in 1..Len(inputs) |-> "f32"], second |-> "f32"]
        ELSE PortsTranslation(mapping[CHOOSE j \in ms : \A l \in ms : l <= j].pt, inputs, output)

\* a lookup that leaves the types as they are when no entry matches
ScanMappingMissKeepsTypes(mapping, k, inputs, output) ==
    LET ms == {j \in k..Len(mapping) :
                 matchAll(mapping[j].inMask, inputs) /\ match(mapping[j].outMask, output)}
    IN  IF ms = {}
        THEN [first |-> inputs, second |-> output]
        ELSE PortsTranslation(mapping[CHOOSE j \in ms : \A l \in ms : j <= l].pt, inputs, output)

RECURSIVE ScanMapping(_, _, _, _)
\* the loop of getTypeConfiguration from entry k on
ScanMapping(mapping, k, inputs, output) ==
    IF k > Len(mapping)
    THEN [first |-> [i \in 1..Len(inputs) |-> "f32"], second |-> "f32"]
    ELSE IF ~matchAll(mapping[k].inMask, inputs) \/ ~match(mapping[k].outMask, output)
         THEN ScanMapping(mapping, k + 1, inputs, output)
         ELSE PortsTranslation(mapping[k].pt, inputs, output)

getTypeConfiguration(mapping, descs) ==
    ScanMapping(mapping, 1, SrcPrecisions(descs), descs.dst[1].prec)

(***************************************************************************)
(* Memory descriptors: element type, whether the descriptor has the ncsp   *)
(* layout type, the dims, and the offset of the first element.             *)
(***************************************************************************)
Desc(prec, ncsp, dims) == [prec |-> prec, ncsp |-> ncsp, dims |-> dims, offset0 |-> 0]

\* a creator that builds a descriptor of another layout
createSharedDescOtherLayout(type, shape) == Desc(type, FALSE, shape)

\* creatorsMap.at(LayoutType::ncsp)->createSharedDesc(type, shape)
createSharedDesc(type, shape) == Desc(type, TRUE, shape)

\* dnnlFCLayoutConfig: every port is LayoutType::ncsp
hasRequiredLayout(desc) == desc.ncsp

\* a match that compares the element types only
fullyMatchConfigurationTypesOnly(descs, typeConfig) ==
    /\ \A i \in 1..Len(descs.src) : descs.src[i].prec \in {typeConfig.first[i], "undefined"}
    /\ descs.dst[1].prec \in {typeConfig.second, "undefined"}

fullyMatchConfiguration(descs, typeConfig) ==
    /\ \A i \in 1..Len(descs.src) :
          /\ descs.src[i].prec \in {typeConfig.first[i], "undefined"}
          /\ hasRequiredLayout(descs.src[i])
    /\ descs.dst[1].prec \in {typeConfig.second, "undefined"}
    /\ hasRequiredLayout(descs.dst[1])

\* a coercion that returns only the descriptors it had to create
createOptimalDescriptorsCreatedOnly(descs, typeConfig) ==
    LET Created(i) == ~(descs.src[i].prec = "undefined" \/ descs.src[i].prec = typeConfig.first[i])
        ids == SelectSeq([i \in 1..Len(descs.src) |-> i], Created)
    IN  [src |-> [k \in 1..Len(ids) |->
                     createSharedDesc(typeConfig.first[ids[k]], descs.src[ids[k]].dims)],
         dst |-> << IF descs.dst[1].prec = "undefined" \/ descs.dst[1].prec = typeConfig.second
                    THEN descs.dst[1]
                    ELSE createSharedDesc(typeConfig.second, descs.dst[1].dims) >>]

createOptimalDescriptors(descs, typeConfig) ==
    [src |-> [i \in 1..Len(descs.src) |->
                 IF descs.src[i].prec = "undefined" \/ descs.src[i].prec = typeConfig.first[i]
                 THEN descs.src[i]
                 ELSE createSharedDesc(typeConfig.first[i], descs.src[i].dims)],
     dst |-> << IF descs.dst[1].prec = "undefined" \/ descs.dst[1].prec = typeConfig.second
                THEN descs.dst[1]
                ELSE createSharedDesc(typeConfig.second, descs.dst[1].dims) >>]

isFullyCompliantCommon(key, typeMapping) ==
    LET typeConfig == getTypeConfiguration(typeMapping, key.descs)
    IN  IF fullyMatchConfiguration(key.descs, typeConfig)
        THEN [first |-> TRUE, second |-> key]
        ELSE [first |-> FALSE,
              second |-> [key EXCEPT !.descs = createOptimalDescriptors(key.descs, typeConfig)]]

(***************************************************************************)
(* FCAttrs and Config (executor::Config<FCAttrs>: descs, attrs, postOps).  *)
(* A decompression tensor is NullPtr or the static dims of its shape.      *)
(***************************************************************************)
NullPtr == [null |-> TRUE, dims |-> << >>]

MemoryPtr(dims) == [null |-> FALSE, dims |-> dims]

FCAttrs(withBias, weightsNonTransposed, sparseWeights, dqSize, sub, mul) ==
    [withBias |-> withBias, weightsNonTransposed |-> weightsNonTransposed,
     sparseWeights |-> sparseWeights, dequantizationScales |-> dqSize,
     decompressionSubtractPtr |-> sub, decompressionMultiplyPtr |-> mul]

\* FCAttrs::operator==, evaluated left to right with short circuit.  The last
\* comparison dereferences rhs.decompressionSubtractPtr without a null check;
\* it is reached with a null pointer only when lhs and rhs differ.
FCAttrsEq(lhs, rhs) ==
    /\ lhs.withBias = rhs.withBias
    /\ lhs.weightsNonTransposed = rhs.weightsNonTransposed
    /\ lhs.sparseWeights = rhs.sparseWeights
    /\ ~lhs.decompressionMultiplyPtr.null
    /\ ~rhs.decompressionMultiplyPtr.null
    /\ lhs.decompressionMultiplyPtr.dims = rhs.decompressionMultiplyPtr.dims
    /\ ~lhs.decompressionSubtractPtr.null
    /\ ~rhs.decompressionMultiplyPtr.null
    /\ lhs.decompressionMultiplyPtr.dims = rhs.decompressionSubtractPtr.dims
    /\ lhs.dequantizationScales = rhs.dequantizationScales

Config(descs, attrs, postOps) == [descs |-> descs, attrs |-> attrs, postOps |-> postOps]

\* implementation_utils.hpp
srcType(key) == key.descs.src[1].prec
weiType(key) == key.descs.src[2].prec
dstType(key) == key.descs.dst[1].prec
srcDims(key) == key.descs.src[1].dims
weiDims(key) == key.descs.src[2].dims
srcRank(key) == Len(srcDims(key))
weiRank(key) == Len(weiDims(key))

BitWidth(prec) ==
    CASE prec = "f32" -> 32
      [] prec \in {"bf16", "f16"} -> 16
      [] prec \in {"i8", "u8"} -> 8
      [] prec \in {"i4", "u4", "nf4"} -> 4
      [] OTHER -> 0

RECURSIVE Product(_)
Product(dims) == IF dims = << >> THEN 1 ELSE Head(dims) * Product(Tail(dims))

\* MemoryDesc::getCurrentMemSize of a dense descriptor with static dims, in bytes
getCurrentMemSize(desc) == (Product(desc.dims) * BitWidth(desc.prec) + 7) \div 8

weiMemSize(key) == getCurrentMemSize(key.descs.src[2])

(***************************************************************************)
(* The environment of a run: what the build registers (the                 *)
(* OV_CPU_INSTANCE_X64 / OV_CPU_INSTANCE_DNNL macros), what the CPU        *)
(* offers (mayiuse), and the verdict of MlasGemmExecutor::isSupported.     *)
(***************************************************************************)
VARIABLES env, suitableImplementations, factories, executor, call, nCalls, filters,
          invoked, runtimeCache, callers, builds, received

vars == << env, suitableImplementations, factories, executor, call, nCalls, filters,
          invoked, runtimeCache, callers, builds, received >>

\* the state of the execution context's cache of primitives and of its callers
cacheVars == << runtimeCache, callers, builds, received >>

mayiuse(isa) ==
    CASE isa = "avx512_core" -> env.isa = "avx512_core"
      [] isa = "avx2"        -> env.isa \in {"avx2", "avx512_core"}

\* DnnlFCPrimitive::useWeightsDecompressionImpl
useWeightsDecompressionImpl(inputType, weightsType) ==
    /\ mayiuse("avx2")
    /\ inputType \in {"f32", "bf16"}
    /\ weightsType \in {"u8", "nf4", "u4", "i4"}

noWeightsDecompression(key) == ~useWeightsDecompressionImpl(srcType(key), weiType(key))

noSparseDecompression(key) == ~key.attrs.sparseWeights

noPostOps(key) == key.postOps = << >>

\* static bool MlasGemmExecutor::isSupported(const FCConfig&)
MlasGemmIsSupported(key) == env.mlasGemm

Impl(name, type, op, agnostic) ==
    [name |-> name, type |-> type, operationType |-> op, shapeAgnostic |-> agnostic]

MlasImpl == Impl("fullyconnected_mlas", "Mlas", "MatMul", TRUE)

Conv1x1Impl == Impl("convolution_1x1_dnnl", "Dnnl", "Convolution", FALSE)

DnnlFCImpl == Impl("fullyconnected_dnnl", "Dnnl", "FullyConnected", FALSE)

\* the registry, highest priority first; an entry exists when its macro does
fullyconnectedImplementations ==
    (IF env.x64 THEN << MlasImpl, Conv1x1Impl >> ELSE << >>)
        \o (IF env.dnnl THEN << DnnlFCImpl >> ELSE << >>)

getImplementations == fullyconnectedImplementations

isShapeAgnostic(impl) == impl.shapeAgnostic

Conv1x1MaxWeightsSize == 16777216

\* a registry whose generic entry supports f32 sources only
isSupportedGenericF32Only(impl, key) ==
    CASE impl.name = "fullyconnected_mlas" ->
             /\ noPostOps(key)
             /\ noSparseDecompression(key)
             /\ noWeightsDecompression(key)
             /\ srcType(key) = "f32" /\ weiType(key) = "f32" /\ dstType(key) = "f32"
             /\ MlasGemmIsSupported(key)
      [] impl.name = "convolution_1x1_dnnl" ->
             /\ noSparseDecompression(key)
             /\ noWeightsDecompression(key)
             /\ mayiuse("avx512_core")
             /\ srcType(key) = "f32"
             /\ srcRank(key) \in {2, 3}
             /\ weiRank(key) = 2
             /\ key.descs.dst[1].offset0 = 0
      [] impl.name = "fullyconnected_dnnl" -> srcType(key) = "f32"

isSupported(impl, key) ==
    CASE impl.name = "fullyconnected_mlas" ->
             /\ noPostOps(key)
             /\ noSparseDecompression(key)
             /\ noWeightsDecompression(key)
             /\ srcType(key) = "f32" /\ weiType(key) = "f32" /\ dstType(key) = "f32"
             /\ MlasGemmIsSupported(key)
      [] impl.name = "convolution_1x1_dnnl" ->
             /\ noSparseDecompression(key)
             /\ noWeightsDecompression(key)
             /\ mayiuse("avx512_core")
             /\ srcType(key) = "f32"
             /\ srcRank(key) \in {2, 3}
             /\ weiRank(key) = 2
             /\ key.descs.dst[1].offset0 = 0
      [] impl.name = "fullyconnected_dnnl" -> TRUE

isShapeSuitable(impl, key) ==
    CASE impl.name = "fullyconnected_mlas" -> TRUE
      [] impl.name = "convolution_1x1_dnnl" ->
             LET inRank      == srcRank(key)
                 widthInConv == srcDims(key)[inRank - 1]
                 K           == srcDims(key)[inRank]
                 N           == weiDims(key)[1]
             IN  /\ weiMemSize(key) < Conv1x1MaxWeightsSize
                 /\ widthInConv >= 2 /\ widthInConv <= 3136
                 /\ K >= 96 /\ K <= 4096
                 /\ N >= 96 /\ N <= K * 4
      [] impl.name = "fullyconnected_dnnl" -> TRUE

isFullyCompliant(impl, key) ==
    CASE impl.name = "fullyconnected_mlas" -> [first |-> TRUE, second |-> key]
      [] impl.name = "convolution_1x1_dnnl" -> isFullyCompliantCommon(key, dnnlConvolutionTypeMapping)
      [] impl.name = "fullyconnected_dnnl" -> isFullyCompliantCommon(key, dnnlFCTypeMapping)

(***************************************************************************)
(* ExecutorFactoryNew<FCAttrs, FullyConnected>                             *)
(*   suitableImplementations : references to registry entries             *)
(*   factories               : the (ExecutorType, OperationType) memo map, *)
(*                             kept as the set of its executors            *)
(*   executor                : the handle the node holds (the result of    *)
(*                             the last make that returned)                *)
(*   call                    : what the last call did                      *)
(*   filters                 : the implementationPriority of each filter   *)
(*                             call that returned normally                 *)
(*   invoked                 : the pair of every constructor run, in order *)
(***************************************************************************)
NoImpl == [name |-> "", type |-> "", operationType |-> "", shapeAgnostic |-> FALSE]

NoAttrs == [none |-> TRUE]

NoDescs == [src |-> << >>, dst |-> << >>]

NoKey == [descs |-> NoDescs, attrs |-> NoAttrs, postOps |-> << >>]

NoExecutor == [kind |-> "none", id |-> 0, factoryId |-> << >>]

\* position of an implementation in the registry (1 = highest priority)
Priority(impl) ==
    CHOOSE i \in 1..Len(getImplementations) : getImplementations[i] = impl

RECURSIVE FilterLoopUnchecked(_, _, _, _, _)
\* filter's loop without the isSupported test
FilterLoopUnchecked(implementations, k, key, implementationPriority, acc) ==
    IF k > Len(implementations) THEN acc
    ELSE LET implementation == implementations[k]
         IN  IF implementationPriority # "" /\ implementation.name # implementationPriority
             THEN FilterLoopUnchecked(implementations, k + 1, key, implementationPriority, acc)
             ELSE IF isShapeAgnostic(implementation)
             THEN Append(acc, implementation)
             ELSE FilterLoopUnchecked(implementations, k + 1, key, implementationPriority,
                                      Append(acc, implementation))

RECURSIVE FilterLoopNoBreak(_, _, _, _, _)
\* filter's loop without the break after a shape agnostic implementation
FilterLoopNoBreak(implementations, k, key, implementationPriority, acc) ==
    IF k > Len(implementations) THEN acc
    ELSE LET implementation == implementations[k]
         IN  IF implementationPriority # "" /\ implementation.name # implementationPriority
             THEN FilterLoopNoBreak(implementations, k + 1, key, implementationPriority, acc)
             ELSE IF ~isSupported(implementation, key)
             THEN FilterLoopNoBreak(implementations, k + 1, key, implementationPriority, acc)
             ELSE FilterLoopNoBreak(implementations, k + 1, key, implementationPriority,
                                    Append(acc, implementation))

RECURSIVE FilterLoop(_, _, _, _, _)
\* the for loop of filter from registry entry k on; acc is suitableImplementations
FilterLoop(implementations, k, key, implementationPriority, acc) ==
    IF k > Len(implementations) THEN acc
    ELSE LET implementation == implementations[k]
         IN  IF implementationPriority # "" /\ implementation.name # implementationPriority
             THEN FilterLoop(implementations, k + 1, key, implementationPriority, acc)
             ELSE IF ~isSupported(implementation, key)
             THEN FilterLoop(implementations, k + 1, key, implementationPriority, acc)
             ELSE IF isShapeAgnostic(implementation)
             THEN Append(acc, implementation)
             ELSE FilterLoop(implementations, k + 1, key, implementationPriority,
                             Append(acc, implementation))

RECURSIVE FindIf(_, _, _)
\* std::find_if of select from position k on: the position found, 0 for end()
FindIf(list, k, key) ==
    IF k > Len(list) THEN 0
    ELSE IF isShapeAgnostic(list[k]) \/ isShapeSuitable(list[k], key) THEN k
    ELSE FindIf(list, k + 1, key)

\* a select that takes the head of the list without testing it
selectFirst(list, key) == IF list = << >> THEN 0 ELSE 1

\* a select that settles for the last entry when no entry matches
selectOrLast(list, key) ==
    IF FindIf(list, 1, key) = 0 THEN Len(list) ELSE FindIf(list, 1, key)

select(list, key) == FindIf(list, 1, key)

\* a memo key made of the executor type alone
FactoryIdTypeOnly(impl) == << impl.type, "" >>

FactoryId(impl) == << impl.type, impl.operationType >>

Find(facts, factoryId) == {e \in facts : e.factoryId = factoryId}

\* what the constructors keep of the key: DnnlFCExecutor builds its shape
\* agnostic data (primitive attributes, post-ops) from the key and keeps a
\* reference to key.attrs; MlasGemmExecutor is built from the key.
doCreate(impl, key, id) ==
    [id |-> id, factoryId |-> FactoryId(impl), impl |-> impl.name,
     ctorAttrs |-> key.attrs, ctorPostOps |-> key.postOps,
     updated |-> FALSE, descs |-> NoDescs, attrs |-> NoAttrs]

\* a create that constructs without looking the pair up first
createAlways(facts, impl, key, id, throws) ==
    IF throws
    THEN [threw |-> TRUE, invoked |-> << FactoryId(impl) >>, factories |-> facts]
    ELSE [threw |-> FALSE, invoked |-> << FactoryId(impl) >>,
          factories |-> (facts \ Find(facts, FactoryId(impl))) \cup {doCreate(impl, key, id)}]

\* a create that inserts the entry before the constructor has returned
createLeavesEntry(facts, impl, key, id, throws) ==
    IF Find(facts, FactoryId(impl)) # {}
    THEN [threw |-> FALSE, invoked |-> << >>, factories |-> facts]
    ELSE [threw |-> throws, invoked |-> << FactoryId(impl) >>,
          factories |-> facts \cup {doCreate(impl, key, id)}]

\* ExecutorFactoryNew::create.  throws: whether the constructor throws.
create(facts, impl, key, id, throws) ==
    IF Find(facts, FactoryId(impl)) # {}
    THEN [threw |-> FALSE, invoked |-> << >>, factories |-> facts]
    ELSE IF throws
    THEN [threw |-> TRUE, invoked |-> << FactoryId(impl) >>, factories |-> facts]
    ELSE [threw |-> FALSE, invoked |-> << FactoryId(impl) >>,
          factories |-> facts \cup {doCreate(impl, key, id)}]

\* Executor::update(descs, memory).  DnnlFCExecutor::createPrimitive reads
\* m_attrs, a reference to the attrs of the key the executor was built from;
\* seen is the value that read produces.
update(e, descs, seen) ==
    [e EXCEPT !.updated = TRUE, !.descs = descs,
              !.attrs = IF e.impl = "fullyconnected_mlas" THEN e.ctorAttrs ELSE seen]

\* GraphEmitter::ensureAttrsMatch: the attributes of the requested and of the
\* coerced configuration are equal
ensureAttrsMatch(key, actualKey) == FCAttrsEq(key.attrs, actualKey.attrs)

\* GraphEmitter::ensureSrcDescsMatch: every source port has the same shape in
\* both configurations (type and layout are what the coercion changes)
ensureSrcDescsMatch(key, actualKey) ==
    /\ Len(key.descs.src) = Len(actualKey.descs.src)
    /\ \A i \in 1..Len(key.descs.src) : key.descs.src[i].dims = actualKey.descs.src[i].dims

\* GraphEmitter::ensureDstDescsMatch
ensureDstDescsMatch(key, actualKey) == key.descs.dst[1].dims = actualKey.descs.dst[1].dims

\* GraphEmitter::ensurePostOpsMatch
ensurePostOpsMatch(key, actualKey) == key.postOps = actualKey.postOps

\* a chain that runs ensurePostOpsMatch first
fallbackPostOpsFirst(key, actualKey) ==
    IF ~ensurePostOpsMatch(key, actualKey) THEN "postOpsMismatch"
    ELSE IF ~ensureAttrsMatch(key, actualKey) THEN "attrsMismatch"
    ELSE IF ~ensureSrcDescsMatch(key, actualKey) THEN "srcDescsMismatch"
    ELSE IF ~ensureDstDescsMatch(key, actualKey) THEN "dstDescsMismatch"
    ELSE "ok"

\* fallback<Attrs, NodeT>: createGraph(actualKey...).ensureAttrsMatch()
\* .ensureSrcDescsMatch().ensureDstDescsMatch().ensurePostOpsMatch().emit();
\* the first check that fails ends the chain
fallback(key, actualKey) ==
    IF ~ensureAttrsMatch(key, actualKey) THEN "attrsMismatch"
    ELSE IF ~ensureSrcDescsMatch(key, actualKey) THEN "srcDescsMismatch"
    ELSE IF ~ensureDstDescsMatch(key, actualKey) THEN "dstDescsMismatch"
    ELSE IF ~ensurePostOpsMatch(key, actualKey) THEN "postOpsMismatch"
    ELSE "ok"

CallRec(op, key) ==
    [op |-> op, key |-> key, prio |-> "", outcome |-> "ok", appended |-> << >>,
     it |-> 0, sel |-> NoImpl, compliant |-> FALSE, ctor |-> << >>, updates |-> << >>,
     fallback |-> << >>, ret |-> NoExecutor, retDescs |-> NoDescs,
     table |-> << >>, typeConfig |-> << >>, second |-> NoKey, submitted |-> NoKey,
     lhs |-> << >>, rhs |-> << >>, equal |-> FALSE, steps |-> 0,
     converse |-> FALSE, lhsHash |-> << >>, rhsHash |-> << >>,
     memory |-> << >>, prim |-> << >>, prepared |-> FALSE, executed |-> << >>,
     args |-> << >>, result |-> FALSE]

(***************************************************************************)
(* The calls explored: keys built from small sets of element types,        *)
(* layouts, shapes, attributes and post-ops; at most MaxCalls calls on one *)
(* factory.                                                                *)
(***************************************************************************)
MaxCalls == 3

\* the number of resubmissions of a coerced configuration that are followed
MaxCoercions == 3

F32Types == << "f32", "f32", "undefined", "f32" >>

\* << src, weights, bias, dst >> element types
TypeTuples == { F32Types, << "f32", "f32", "undefined", "u8" >>,
                << "bf16", "bf16", "undefined", "bf16" >> }

SuitableShape == << << 2, 96 >>, << 96, 96 >>, << 2, 96 >> >>

\* << src dims, weights dims, dst dims >>: the second has widthInConv = 1
ShapeTuples == { SuitableShape, << << 1, 96 >>, << 96, 96 >>, << 1, 96 >> >> }

\* the bias port carries the empty descriptor when there is no bias
MakeDescs(t, srcNcsp, sh) ==
    [src |-> << Desc(t[1], srcNcsp, sh[1]), Desc(t[2], TRUE, sh[2]), Desc(t[3], TRUE, << 0 >>) >>,
     dst |-> << Desc(t[4], TRUE, sh[3]) >>]

\* every type tuple with the ncsp layout, the f32 tuple in every shape, and
\* one source descriptor that has another layout
DescsSet ==
    { MakeDescs(t, TRUE, SuitableShape) : t \in TypeTuples }
        \cup { MakeDescs(F32Types, TRUE, sh) : sh \in ShapeTuples }
        \cup { MakeDescs(F32Types, FALSE, SuitableShape) }

DefaultAttrs == FCAttrs(FALSE, FALSE, FALSE, 0, NullPtr, NullPtr)

DecompressionAttrs == FCAttrs(FALSE, TRUE, FALSE, 0, MemoryPtr(<< 96 >>), MemoryPtr(<< 96 >>))

AttrsSet == { DefaultAttrs, DecompressionAttrs }

\* every descriptor set with default attributes and no post-ops; the
\* compliant f32 key also with a post-op and with other attributes; the
\* non-compliant u8-output key also with other attributes
Keys ==
    { Config(d, DefaultAttrs, << >>) : d \in DescsSet }
        \cup { Config(MakeDescs(F32Types, TRUE, SuitableShape), DefaultAttrs, << "relu" >>) }
        \cup { Config(MakeDescs(t, TRUE, SuitableShape), DecompressionAttrs, << >>) :
                 t \in { F32Types, << "f32", "f32", "undefined", "u8" >> } }

\* no name, the name of the shape agnostic entry, the name of the last entry
PriorityNames == {"", "fullyconnected_mlas", "fullyconnected_dnnl"}

Environment(x64, dnnl, isa, mlasGemm) ==
    [x64 |-> x64, dnnl |-> dnnl, isa |-> isa, mlasGemm |-> mlasGemm]

\* an x64 build with and without AVX-512 / MLAS support, an x64 build without
\* the oneDNN entries, and a build that is not x64
Envs ==
    { Environment(TRUE, TRUE, "avx512_core", TRUE),
      Environment(TRUE, TRUE, "avx2", FALSE),
      Environment(TRUE, FALSE, "avx512_core", TRUE),
      Environment(FALSE, TRUE, "sse42", FALSE) }

(***************************************************************************)
(* Keys of the runtime cache of primitives.  A descriptor pointer is the   *)
(* identity of the object it points to (0 for a null pointer) and the      *)
(* oneDNN memory descriptor that object holds.                             *)
(***************************************************************************)
DescPtr(id, md) == [id |-> id, md |-> md]

NullDescPtr == DescPtr(0, << >>)

DnnlFcKey(src, wei, bias, dst, attr, sparseWeights, transposedWeights) ==
    [src |-> src, wei |-> wei, bias |-> bias, dst |-> dst, attr |-> attr,
     sparseWeights |-> sparseWeights, transposedWeights |-> transposedWeights]

DnnlConvKey(src, wei, bias, dst, attr) ==
    [src |-> src, wei |-> wei, bias |-> bias, dst |-> dst, attr |-> attr]

\* a comparison that asks for two non-null pointers even when they are the same
DescPtrEqNonNullOnly(lhs, rhs) ==
    lhs.id # 0 /\ rhs.id # 0 /\ lhs.md = rhs.md

\* the part of operator== for one pointer: distinct pointers must both be
\* non-null and hold equal descriptors
DescPtrEq(lhs, rhs) ==
    lhs.id # rhs.id => (lhs.id # 0 /\ rhs.id # 0 /\ lhs.md = rhs.md)

\* an equality that compares the descriptor pointers only
DnnlFcKeyEqByPointer(lhs, rhs) ==
    /\ lhs.src.id = rhs.src.id /\ lhs.wei.id = rhs.wei.id
    /\ lhs.bias.id = rhs.bias.id /\ lhs.dst.id = rhs.dst.id
    /\ lhs.attr = rhs.attr
    /\ lhs.sparseWeights = rhs.sparseWeights
    /\ lhs.transposedWeights = rhs.transposedWeights

\* bool DnnlFcKey::operator==(const DnnlFcKey& rhs) const
DnnlFcKeyEq(lhs, rhs) ==
    /\ DescPtrEq(lhs.src, rhs.src) /\ DescPtrEq(lhs.wei, rhs.wei)
    /\ DescPtrEq(lhs.bias, rhs.bias) /\ DescPtrEq(lhs.dst, rhs.dst)
    /\ lhs.attr = rhs.attr
    /\ lhs.sparseWeights = rhs.sparseWeights
    /\ lhs.transposedWeights = rhs.transposedWeights

\* bool DnnlConvKey::operator==(const DnnlConvKey& rhs) const
DnnlConvKeyEq(lhs, rhs) ==
    /\ DescPtrEq(lhs.src, rhs.src) /\ DescPtrEq(lhs.wei, rhs.wei)
    /\ DescPtrEq(lhs.bias, rhs.bias) /\ DescPtrEq(lhs.dst, rhs.dst)
    /\ lhs.attr = rhs.attr

\* the descriptor hashes combined into the seed: null pointers are skipped
\* a hash of the descriptor pointers in place of the descriptors
MdHashesByPointer(key) ==
    LET ptrs == << key.src, key.wei, key.bias, key.dst >>
        NotNull(ptr) == ptr.id # 0
        nonNull == SelectSeq(ptrs, NotNull)
    IN  [i \in 1..Len(nonNull) |-> nonNull[i].id]

MdHashes(key) ==
    LET ptrs == << key.src, key.wei, key.bias, key.dst >>
        NotNull(ptr) == ptr.id # 0
        nonNull == SelectSeq(ptrs, NotNull)
    IN  [i \in 1..Len(nonNull) |-> nonNull[i].md]

\* size_t DnnlFcKey::hash() const, as the sequence of values combined
DnnlFcKeyHash(key) ==
    << MdHashes(key), key.attr, key.sparseWeights, key.transposedWeights >>

\* size_t DnnlConvKey::hash() const
DnnlConvKeyHash(key) == << MdHashes(key), key.attr >>

KeyEq(kind, lhs, rhs) ==
    IF kind = "fc" THEN DnnlFcKeyEq(lhs, rhs) ELSE DnnlConvKeyEq(lhs, rhs)

KeyHash(kind, key) ==
    IF kind = "fc" THEN DnnlFcKeyHash(key) ELSE DnnlConvKeyHash(key)

\* the entries of the cache found for a key: same key type, same hash, equal
Lookup(cache, kind, key) ==
    {e \in cache : /\ e.kind = kind
                   /\ KeyHash(kind, e.key) = KeyHash(kind, key)
                   /\ KeyEq(kind, e.key, key)}

\* the threads that create primitives on one execution context
Callers == {1, 2}

IdleCaller == [pc |-> "idle", kind |-> "", key |-> << >>]

Init ==
    /\ env \in Envs
    /\ suitableImplementations = << >>
    /\ factories = {}
    /\ executor = NoExecutor
    /\ call = CallRec("none", NoKey)
    /\ nCalls = 0
    /\ filters = << >>
    /\ invoked = << >>
    /\ runtimeCache = {}
    /\ callers = [t \in Callers |-> IdleCaller]
    /\ builds = {}
    /\ received = {}

\* the registry entries whose isSupported(key) holds
SupportedBy(key) ==
    {i \in 1..Len(getImplementations) : isSupported(getImplementations[i], key)}

\* void filter(key, implementationPriority)
Filter(key, implementationPriority) ==
    LET list == FilterLoop(getImplementations, 1, key, implementationPriority,
                           suitableImplementations)
        appended == SubSeq(list, Len(suitableImplementations) + 1, Len(list))
    IN  /\ nCalls < MaxCalls
        /\ nCalls' = nCalls + 1
        /\ UNCHANGED cacheVars
        /\ suitableImplementations' = list
        /\ call' = [CallRec("filter", key) EXCEPT
                       !.prio = implementationPriority,
                       !.appended = appended,
                       !.outcome = IF list = << >> THEN "noImplementation" ELSE "ok"]
        /\ filters' = IF list = << >> THEN filters
                      ELSE Append(filters, implementationPriority)
        /\ UNCHANGED << env, factories, executor, invoked >>

\* a call that fails in select: OPENVINO_ASSERT throws before anything is done
SelectFails(op, key) ==
    /\ call' = [CallRec(op, key) EXCEPT !.outcome = "noSelection"]
    /\ UNCHANGED << env, suitableImplementations, factories, executor, filters, invoked >>

\* a query that answers the descriptors of the key whatever the compliance
PreconfigureMemoryDescriptorsOwnDescs(key) ==
    LET it == select(suitableImplementations, key)
    IN  /\ nCalls < MaxCalls
        /\ nCalls' = nCalls + 1
        /\ UNCHANGED cacheVars
        /\ IF it = 0 THEN SelectFails("preconfigureMemoryDescriptors", key)
           ELSE LET impl == suitableImplementations[it]
                    res  == isFullyCompliant(impl, key)
                IN  /\ call' = [CallRec("preconfigureMemoryDescriptors", key) EXCEPT
                                   !.it = it, !.sel = impl, !.compliant = res.first,
                                   !.retDescs = key.descs]
                    /\ UNCHANGED << env, suitableImplementations, factories, executor,
                                    filters, invoked >>

\* MemoryDescArgs preconfigureMemoryDescriptors(key)
PreconfigureMemoryDescriptors(key) ==
    LET it == select(suitableImplementations, key)
    IN  /\ nCalls < MaxCalls
        /\ nCalls' = nCalls + 1
        /\ UNCHANGED cacheVars
        /\ IF it = 0 THEN SelectFails("preconfigureMemoryDescriptors", key)
           ELSE LET impl == suitableImplementations[it]
                    res  == isFullyCompliant(impl, key)
                IN  /\ call' = [CallRec("preconfigureMemoryDescriptors", key) EXCEPT
                                   !.it = it, !.sel = impl, !.compliant = res.first,
                                   !.retDescs = IF res.first THEN key.descs ELSE res.second.descs]
                    /\ UNCHANGED << env, suitableImplementations, factories, executor,
                                    filters, invoked >>

\* the call reaches a constructor: only then can one throw
ConstructorRuns(it, key) ==
    /\ it # 0
    /\ Find(factories, FactoryId(suitableImplementations[it])) = {}

\* make updates an executor built by an earlier call whose update reads m_attrs
DanglingRead(it, key) ==
    /\ it # 0
    /\ isFullyCompliant(suitableImplementations[it], key).first
    /\ Find(factories, FactoryId(suitableImplementations[it])) # {}

\* void preconfigure(key, memory).  throws: whether a constructor run by this
\* call throws.
Preconfigure(key, throws) ==
    LET it == select(suitableImplementations, key)
    IN  /\ nCalls < MaxCalls
        /\ nCalls' = nCalls + 1
        /\ UNCHANGED cacheVars
        /\ throws => ConstructorRuns(it, key)
        /\ IF it = 0 THEN SelectFails("preconfigure", key)
           ELSE LET impl  == suitableImplementations[it]
                    res   == isFullyCompliant(impl, key)
                    none  == [threw |-> FALSE, invoked |-> << >>, factories |-> factories]
                    first == IF res.first
                             THEN create(factories, impl, key, nCalls + 1, throws)
                             ELSE none
                    last  == IF first.threw THEN first
                             ELSE create(first.factories, impl, res.second, nCalls + 1, throws)
                    ctor  == IF first.threw THEN first.invoked
                             ELSE first.invoked \o last.invoked
                IN  /\ factories' = last.factories
                    /\ invoked' = invoked \o ctor
                    /\ call' = [CallRec("preconfigure", key) EXCEPT
                                   !.it = it, !.sel = impl, !.compliant = res.first,
                                   !.ctor = ctor,
                                   !.outcome = IF last.threw THEN "createThrows" ELSE "ok"]
                    /\ UNCHANGED << env, suitableImplementations, executor, filters >>

\* what a branch of make leaves behind
MakeResult(outcome, facts, ctor, updates, fb, ret) ==
    [outcome |-> outcome, factories |-> facts, ctor |-> ctor, updates |-> updates,
     fallback |-> fb, ret |-> ret]

ShellHandle(e) == [kind |-> "shell", id |-> e.id, factoryId |-> e.factoryId]

GraphHandle(id) == [kind |-> "graph", id |-> id, factoryId |-> << >>]

\* a compliant branch that updates only the executor it has just built
makeCompliantNoUpdateOnReuse(facts, impl, key, id, createThrows, updateThrows, seen) ==
    LET made  == create(facts, impl, key, id, createThrows)
        e     == CHOOSE x \in Find(made.factories, FactoryId(impl)) : TRUE
        upd   == << [id |-> e.id, descs |-> key.descs] >>
    IN  IF made.threw
        THEN MakeResult("createThrows", facts, made.invoked, << >>, << >>, NoExecutor)
        ELSE IF made.invoked = << >>
        THEN MakeResult("ok", made.factories, made.invoked, << >>, << >>, ShellHandle(e))
        ELSE IF updateThrows
        THEN MakeResult("updateThrows", made.factories, made.invoked, upd, << >>, NoExecutor)
        ELSE MakeResult("ok", (made.factories \ {e}) \cup {update(e, key.descs, key.attrs)},
                        made.invoked, upd, << >>, ShellHandle(e))

\* the compliant branch of make: create (or look up), update, return.
\* createThrows / updateThrows: whether the constructor / update run by this
\* call throws; seen: what a read through a dangling m_attrs produces.  The
\* node's keys are locals of the calling function, so the reference is valid
\* only in the call that built the executor.
makeCompliant(facts, impl, key, id, createThrows, updateThrows, seen) ==
    LET made  == create(facts, impl, key, id, createThrows)
        e     == CHOOSE x \in Find(made.factories, FactoryId(impl)) : TRUE
        attrs == IF made.invoked # << >> THEN key.attrs ELSE seen
        upd   == << [id |-> e.id, descs |-> key.descs] >>
    IN  IF made.threw
        THEN MakeResult("createThrows", facts, made.invoked, << >>, << >>, NoExecutor)
        ELSE IF updateThrows
        THEN MakeResult("updateThrows", made.factories, made.invoked, upd, << >>, NoExecutor)
        ELSE MakeResult("ok", (made.factories \ {e}) \cup {update(e, key.descs, attrs)},
                        made.invoked, upd, << >>, ShellHandle(e))

\* a fallback branch that hands the coerced key over in place of the requested one
makeFallbackCoercedOnly(facts, key, actualKey, id) ==
    LET verdict == fallback(actualKey, actualKey)
    IN  MakeResult(verdict, facts, << >>, << >>, << actualKey, actualKey >>,
                   IF verdict = "ok" THEN GraphHandle(id) ELSE NoExecutor)

\* the other branch of make: return fallback(key, actualKey, ...)
makeFallback(facts, key, actualKey, id) ==
    LET verdict == fallback(key, actualKey)
    IN  MakeResult(verdict, facts, << >>, << >>, << key, actualKey >>,
                   IF verdict = "ok" THEN GraphHandle(id) ELSE NoExecutor)

\* ExecutorPtr make(key, memory)
Make(key, createThrows, updateThrows, seen) ==
    LET it == select(suitableImplementations, key)
    IN  /\ nCalls < MaxCalls
        /\ nCalls' = nCalls + 1
        /\ UNCHANGED cacheVars
        /\ createThrows => ConstructorRuns(it, key)
        /\ seen # key.attrs => DanglingRead(it, key)
        /\ IF it = 0 THEN SelectFails("make", key)
           ELSE LET impl == suitableImplementations[it]
                    res  == isFullyCompliant(impl, key)
                    r    == IF res.first
                            THEN makeCompliant(factories, impl, key, nCalls + 1,
                                               createThrows, updateThrows, seen)
                            ELSE makeFallback(factories, key, res.second, nCalls + 1)
                IN  /\ factories' = r.factories
                    /\ invoked' = invoked \o r.ctor
                    /\ executor' = IF r.outcome = "ok" THEN r.ret ELSE executor
                    /\ call' = [CallRec("make", key) EXCEPT
                                   !.it = it, !.sel = impl, !.compliant = res.first,
                                   !.ctor = r.ctor, !.updates = r.updates,
                                   !.fallback = r.fallback, !.outcome = r.outcome,
                                   !.ret = r.ret]
                    /\ UNCHANGED << env, suitableImplementations, filters >>

\* FullyConnected::execute: executor->execute(memory) on the handle make returned
Execute ==
    /\ nCalls < MaxCalls
    /\ executor.kind # "none"
    /\ nCalls' = nCalls + 1
    /\ UNCHANGED cacheVars
    /\ call' = [CallRec("execute", NoKey) EXCEPT !.ret = executor]
    /\ UNCHANGED << env, suitableImplementations, factories, executor, filters, invoked >>

Next ==
    \/ \E key \in Keys, p \in PriorityNames : Filter(key, p)
    \/ \E key \in Keys : PreconfigureMemoryDescriptors(key)
    \/ \E key \in Keys, throws \in BOOLEAN : Preconfigure(key, throws)
    \/ \E key \in Keys, ct \in BOOLEAN, ut \in BOOLEAN, seen \in AttrsSet : Make(key, ct, ut, seen)
    \/ Execute

Spec == Init /\ [][Next]_vars

(***************************************************************************)
(* The pure functions of the core applied to configurations drawn from a   *)
(* wider set of element types and layouts than one factory explores: the   *)
(* type-table lookup, the compliance check of every registry entry, the    *)
(* compliance check of the Config' it returned, and the fallback chain.    *)
(***************************************************************************)
SrcTypes == {"f32", "bf16", "f16", "u8", "i8"}

WeiTypes == {"f32", "bf16", "f16", "i8", "u8", "nf4"}

BiasTypes == {"undefined", "f32", "u8"}

DstTypes == {"f32", "bf16", "f16", "u8", "i8", "undefined"}

\* descriptors with and without the ncsp layout
WideDescs(st, wt, bt, dt, sl, wl, bl, dl) ==
    [src |-> << Desc(st, sl, SuitableShape[1]), Desc(wt, wl, SuitableShape[2]),
                Desc(bt, bl, << 0 >>) >>,
     dst |-> << Desc(dt, dl, SuitableShape[3]) >>]

WideKeys ==
    { Config(WideDescs(st, wt, bt, dt, sl, wl, bl, dl), ap[1], ap[2]) :
        st \in SrcTypes, wt \in WeiTypes, bt \in BiasTypes, dt \in DstTypes,
        sl \in BOOLEAN, wl \in BOOLEAN, bl \in BOOLEAN, dl \in BOOLEAN,
        ap \in { << DefaultAttrs, << >> >>, << DecompressionAttrs, << "relu" >> >> } }

\* a table that has no catch-all entry
dnnlFCTypeMappingNoCatchAll == SubSeq(dnnlFCTypeMapping, 1, Len(dnnlFCTypeMapping) - 1)

TypeMappings == { dnnlFCTypeMapping, dnnlConvolutionTypeMapping, dnnlFCTypeMappingNoCatchAll }

\* << src dims, weights dims, dst dims >> that differ from SuitableShape in
\* the source, in the destination, in both or in neither
ActualShapes ==
    { SuitableShape,
      << << 1, 96 >>, << 96, 96 >>, << 2, 96 >> >>,
      << << 2, 96 >>, << 96, 96 >>, << 1, 96 >> >>,
      << << 1, 96 >>, << 96, 96 >>, << 1, 96 >> >> }

\* configurations handed to fallback as the coerced one
ActualKeys ==
    { Config(MakeDescs(F32Types, TRUE, sh), a, p) :
        sh \in ActualShapes, a \in AttrsSet, p \in { << >>, << "relu" >> } }

FunctionsInit ==
    /\ env = Environment(TRUE, TRUE, "avx512_core", TRUE)
    /\ suitableImplementations = << >>
    /\ factories = {}
    /\ executor = NoExecutor
    /\ call \in { CallRec("none", key) : key \in WideKeys \cup Keys }
    /\ nCalls = 0
    /\ filters = << >>
    /\ invoked = << >>
    /\ runtimeCache = {}
    /\ callers = [t \in Callers |-> IdleCaller]
    /\ builds = {}
    /\ received = {}

\* getTypeConfiguration(descriptors, mapping) on the drawn configuration
GetTypeConfiguration(mapping) ==
    /\ call.op = "none"
    /\ call' = [CallRec("getTypeConfiguration", call.key) EXCEPT
                   !.table = mapping,
                   !.typeConfig = getTypeConfiguration(mapping, call.key.descs)]
    /\ UNCHANGED << env, suitableImplementations, factories, executor, nCalls, filters,
                    invoked, runtimeCache, callers, builds, received >>

\* impl.isFullyCompliant(config) on the drawn configuration
IsFullyCompliant(impl) ==
    LET res == isFullyCompliant(impl, call.key)
    IN  /\ call.op = "none"
        /\ call' = [CallRec("isFullyCompliant", call.key) EXCEPT
                       !.sel = impl, !.compliant = res.first, !.second = res.second]
        /\ UNCHANGED << env, suitableImplementations, factories, executor, nCalls, filters,
                        invoked, runtimeCache, callers, builds, received >>

\* impl.isFullyCompliant(config') on the Config' of a non-compliant answer
Resubmit ==
    LET res == isFullyCompliant(call.sel, call.second)
    IN  /\ call.op = "isFullyCompliant"
        /\ ~call.compliant
        /\ call' = [CallRec("resubmit", call.second) EXCEPT
                       !.sel = call.sel, !.compliant = res.first, !.second = res.second,
                       !.submitted = call.key]
        /\ UNCHANGED << env, suitableImplementations, factories, executor, nCalls, filters,
                        invoked, runtimeCache, callers, builds, received >>

\* impl.isFullyCompliant on the Config' of a resubmission that was again
\* answered non-compliant; steps counts the resubmissions after the first
Recoerce ==
    LET res == isFullyCompliant(call.sel, call.second)
    IN  /\ call.op \in {"resubmit", "recoerce"}
        /\ ~call.compliant
        /\ call.steps < MaxCoercions
        /\ call' = [CallRec("recoerce", call.second) EXCEPT
                       !.sel = call.sel, !.compliant = res.first, !.second = res.second,
                       !.submitted = call.submitted, !.steps = call.steps + 1]
        /\ UNCHANGED << env, suitableImplementations, factories, executor, nCalls, filters,
                        invoked, runtimeCache, callers, builds, received >>

\* the fallback branch of make on the drawn configuration and a coerced one
Fallback(actualKey) ==
    LET r == makeFallback(factories, call.key, actualKey, 1)
    IN  /\ call.op = "none"
        /\ call.key \in Keys
        /\ call' = [CallRec("fallback", call.key) EXCEPT
                       !.fallback = r.fallback, !.outcome = r.outcome, !.ret = r.ret]
        /\ UNCHANGED << env, suitableImplementations, factories, executor, nCalls, filters,
                        invoked, runtimeCache, callers, builds, received >>

FunctionsNext ==
    \/ \E mapping \in TypeMappings : GetTypeConfiguration(mapping)
    \/ \E i \in 1..Len(getImplementations) : IsFullyCompliant(getImplementations[i])
    \/ Resubmit
    \/ Recoerce
    \/ \E actualKey \in ActualKeys : Fallback(actualKey)

FunctionsSpec == FunctionsInit /\ [][FunctionsNext]_vars

(***************************************************************************)
(* The runtime cache of one execution context, shared by the executors     *)
(* that create primitives on it.  getOrCreate(key, builder) finds the      *)
(* entry of an equal key or inserts one and runs the builder; a caller     *)
(* that finds the entry of a build in progress waits for it.               *)
(*   runtimeCache : the entries (key type, key, ready, instance)           *)
(*   callers      : what each thread is doing                              *)
(*   builds       : the builder invocations (key type, key, instance made) *)
(*   received     : what getOrCreate returned to each call that finished   *)
(***************************************************************************)
SrcMd == << "f32", << 2, 96 >> >>

OtherSrcMd == << "bf16", << 2, 96 >> >>

\* two descriptor objects that hold the same descriptor and one that does not
SrcDescPtrs == { DescPtr(1, SrcMd), DescPtr(2, SrcMd), DescPtr(3, OtherSrcMd) }

WeiDescPtr == DescPtr(4, << "f32", << 96, 96 >> >>)

DstDescPtr == DescPtr(5, << "f32", << 2, 96 >> >>)

\* DnnlExtensionUtils::makeDescriptor(dnnl::memory::desc{}): a new object per call
EmptyBiasDescPtr(n) == DescPtr(10 + n, << "undef", << >> >>)

PrimAttrs == {"attr", "attrWithPostOps"}

Entry(kind, key, ready, instance) ==
    [kind |-> kind, key |-> key, ready |-> ready, instance |-> instance]

Received(kind, key, instance, wasCreated, waited) ==
    [kind |-> kind, key |-> key, instance |-> instance, wasCreated |-> wasCreated,
     waited |-> waited]

\* an empty cache and no caller inside create
CacheInit ==
    /\ env = Environment(TRUE, TRUE, "avx512_core", TRUE)
    /\ suitableImplementations = << >>
    /\ factories = {}
    /\ executor = NoExecutor
    /\ call = CallRec("none", NoKey)
    /\ nCalls = 0
    /\ filters = << >>
    /\ invoked = << >>
    /\ runtimeCache = {}
    /\ callers = [t \in Callers |-> IdleCaller]
    /\ builds = {}
    /\ received = {}

\* getOrCreate up to the point where the caller returns, builds or waits
getOrCreate(t, kind, key) ==
    LET hit == Lookup(runtimeCache, kind, key)
    IN  IF hit = {}
        THEN /\ runtimeCache' = runtimeCache \cup { Entry(kind, key, FALSE, 0) }
             /\ callers' = [callers EXCEPT ![t] = [pc |-> "building", kind |-> kind, key |-> key]]
             /\ UNCHANGED << builds, received >>
        ELSE LET e == CHOOSE e \in hit : TRUE
             IN  IF e.ready
                 THEN /\ received' = received \cup
                                        { Received(kind, key, e.instance, FALSE, FALSE) }
                      /\ UNCHANGED << runtimeCache, callers, builds >>
                 ELSE /\ callers' = [callers EXCEPT
                                        ![t] = [pc |-> "waiting", kind |-> kind, key |-> key]]
                      /\ UNCHANGED << runtimeCache, builds, received >>

\* DnnlFCPrimitive::create(descs, attrs, context, shapeAgnosticData)
CreateFC(t, src, attr, weightsNonTransposed) ==
    /\ nCalls < MaxCalls
    /\ callers[t].pc = "idle"
    /\ nCalls' = nCalls + 1
    /\ getOrCreate(t, "fc", DnnlFcKey(src, WeiDescPtr, EmptyBiasDescPtr(nCalls + 1), DstDescPtr,
                                      attr, FALSE, weightsNonTransposed))
    /\ UNCHANGED << env, suitableImplementations, factories, executor, call, filters, invoked >>

\* DnnlConvolutionPrimitive::create(descs, attrs, context, shapeAgnosticData)
CreateConv(t, src, attr) ==
    /\ nCalls < MaxCalls
    /\ callers[t].pc = "idle"
    /\ nCalls' = nCalls + 1
    /\ getOrCreate(t, "conv", DnnlConvKey(src, WeiDescPtr, EmptyBiasDescPtr(nCalls + 1),
                                          DstDescPtr, attr))
    /\ UNCHANGED << env, suitableImplementations, factories, executor, call, filters, invoked >>

\* the builder: std::make_shared<Dnnl...Primitive>(key, engine, implPriorities);
\* the entry becomes ready and the caller gets the instance
Build(t) ==
    LET c        == callers[t]
        instance == Cardinality(builds) + 1
    IN  /\ c.pc = "building"
        /\ builds' = builds \cup { [kind |-> c.kind, key |-> c.key, instance |-> instance] }
        /\ runtimeCache' = (runtimeCache \ { Entry(c.kind, c.key, FALSE, 0) })
                               \cup { Entry(c.kind, c.key, TRUE, instance) }
        /\ received' = received \cup { Received(c.kind, c.key, instance, TRUE, FALSE) }
        /\ callers' = [callers EXCEPT ![t] = IdleCaller]
        /\ UNCHANGED << env, suitableImplementations, factories, executor, call, nCalls,
                        filters, invoked >>

\* a caller that waited gets the instance once the build it waited for is done
Wake(t) ==
    LET c   == callers[t]
        hit == { e \in Lookup(runtimeCache, c.kind, c.key) : e.ready }
    IN  /\ c.pc = "waiting"
        /\ hit # {}
        /\ received' = received \cup
                          { Received(c.kind, c.key, (CHOOSE e \in hit : TRUE).instance, FALSE, TRUE) }
        /\ callers' = [callers EXCEPT ![t] = IdleCaller]
        /\ UNCHANGED << env, suitableImplementations, factories, executor, call, nCalls,
                        filters, invoked, runtimeCache, builds >>

CacheNext ==
    \/ \E t \in Callers, src \in SrcDescPtrs, nt \in BOOLEAN : CreateFC(t, src, "attr", nt)
    \/ \E t \in Callers, src \in SrcDescPtrs, attr \in PrimAttrs : CreateConv(t, src, attr)
    \/ \E t \in Callers : Build(t)
    \/ \E t \in Callers : Wake(t)

CacheSpec == CacheInit /\ [][CacheNext]_vars

(***************************************************************************)
(* Properties of the factory                                               *)
(***************************************************************************)
\* the calls that start with select
SelectingOps == {"make", "preconfigure", "preconfigureMemoryDescriptors"}

\* the test select applies to an entry of the list
Selectable(impl, key) == isShapeAgnostic(impl) \/ isShapeSuitable(impl, key)

NoneSelectable(list, key) == \A i \in 1..Len(list) : ~Selectable(list[i], key)

\* the key without its shapes
ShapeFree(key) ==
    [key EXCEPT !.descs =
        [src |-> [i \in 1..Len(key.descs.src) |-> [key.descs.src[i] EXCEPT !.dims = << >>]],
         dst |-> [i \in 1..Len(key.descs.dst) |-> [key.descs.dst[i] EXCEPT !.dims = << >>]]]]

\* this step is a call
IsCall == nCalls' # nCalls

\* C1: agnostic dominance.  When filter(Config) (no priority name, on a
\* factory that was only ever filtered without one) has returned and the next
\* call is a make / preconfigure / preconfigureMemoryDescriptors for that
\* Config in any shape, then for every shape agnostic implementation at
\* priority p that supports the Config, the call chooses no implementation
\* registered after p.
C1_AgnosticDominance ==
    [][ ( /\ IsCall
          /\ call.op = "filter" /\ call.outcome = "ok"
          /\ \A k \in 1..Len(filters) : filters[k] = ""
          /\ call'.op \in SelectingOps /\ call'.outcome # "noSelection"
          /\ ShapeFree(call'.key) = ShapeFree(call.key) )
        => \A p \in SupportedBy(call.key) :
               isShapeAgnostic(getImplementations[p]) => Priority(call'.sel) <= p ]_vars

\* C2: select returns the first entry of the filtered list, in list order,
\* that is shape agnostic or shape suitable for the Config; no earlier entry
\* is either.
C2_SelectFirstSuitable ==
    (call.op \in SelectingOps /\ call.outcome # "noSelection")
        => /\ call.it \in 1..Len(suitableImplementations)
           /\ call.sel = suitableImplementations[call.it]
           /\ Selectable(call.sel, call.key)
           /\ \A j \in 1..(call.it - 1) : ~Selectable(suitableImplementations[j], call.key)

\* a make that passed over the head of the list and took its second entry
C2_Witness ==
    /\ call.op = "make" /\ call.outcome = "ok"
    /\ call.it = 2
    /\ ~Selectable(suitableImplementations[1], call.key)

\* C3: after filter(Config) (the call without a priority name) on a factory
\* whose list was empty, the list holds only implementations that support the
\* Config, in registration order, and every supported implementation
\* registered at or before its last entry.
C3_FilterOnEmptyList ==
    (call.op = "filter" /\ call.prio = "" /\ call.appended = suitableImplementations)
        => LET list == suitableImplementations
           IN  /\ \A i \in 1..Len(list) : isSupported(list[i], call.key)
               /\ \A i, j \in 1..Len(list) : i < j => Priority(list[i]) < Priority(list[j])
               /\ list # << >> =>
                      \A p \in SupportedBy(call.key) :
                          p <= Priority(list[Len(list)])
                              => \E i \in 1..Len(list) : list[i] = getImplementations[p]

\* a first filter that skipped the unsupported head of the registry and kept
\* the two entries behind it
C3_Witness ==
    /\ call.op = "filter" /\ call.prio = ""
    /\ call.appended = suitableImplementations
    /\ Len(suitableImplementations) = 2
    /\ Len(getImplementations) = 3
    /\ 1 \notin SupportedBy(call.key)

\* C4: early termination.  Within one filter call a shape agnostic
\* implementation is the last one appended: nothing registered after it is
\* appended by that call.
C4_EarlyTermination ==
    call.op = "filter"
        => \A i \in 1..Len(call.appended) :
               isShapeAgnostic(call.appended[i])
                   => /\ i = Len(call.appended)
                      /\ \A j \in 1..Len(call.appended) :
                             Priority(call.appended[j]) <= Priority(call.appended[i])

\* a filter that stopped at the shape agnostic head of the registry although
\* every registered implementation supports the Config
C4_Witness ==
    /\ call.op = "filter" /\ call.prio = ""
    /\ call.appended = << MlasImpl >>
    /\ Cardinality(SupportedBy(call.key)) = 3

\* C5: filter(Config) on a Config that no registered implementation supports
\* always ends with the configuration-unsatisfiable error, in every factory
\* state, also after earlier filter calls on the same factory.
C5_UnsupportedConfigRejected ==
    ( /\ call.op = "filter" /\ call.prio = ""
      /\ \A k \in 1..Len(filters) : filters[k] = ""
      /\ SupportedBy(call.key) = {} )
        => call.outcome = "noImplementation"

\* C6: when no entry of the list is shape agnostic or shape suitable for the
\* Config (the empty list included), make, preconfigure and
\* preconfigureMemoryDescriptors fail with the selection error and nothing is
\* created, memoized, updated or returned.
C6_SelectionFailure ==
    [][ ( /\ IsCall
          /\ call'.op \in SelectingOps
          /\ NoneSelectable(suitableImplementations, call'.key) )
        => /\ call'.outcome = "noSelection"
           /\ call'.ctor = << >> /\ call'.updates = << >> /\ call'.fallback = << >>
           /\ call'.ret = NoExecutor /\ call'.retDescs = NoDescs
           /\ factories' = factories /\ invoked' = invoked /\ executor' = executor ]_vars

\* a make that failed in select on a list that has entries, none for the shape
C6_Witness ==
    /\ call.op = "make" /\ call.outcome = "noSelection"
    /\ suitableImplementations # << >>
    /\ NoneSelectable(suitableImplementations, call.key)

\* C7 as stated: over any sequence of preconfigure and make calls the
\* constructor is invoked at most once per (ExecutorType, OperationType) pair,
\* and a compliant make returns the executor memoized for the pair.
C7_ConstructorInvokedOncePerPair ==
    /\ \A i, j \in 1..Len(invoked) : i < j => invoked[i] # invoked[j]
    /\ (call.op = "make" /\ call.compliant /\ call.outcome = "ok")
           => \E e \in factories :
                  e.factoryId = FactoryId(call.sel) /\ call.ret = ShellHandle(e)

\* C7: the constructor is invoked for a pair only while the memo map holds no
\* executor for the pair, the map never holds two executors for one pair and
\* never drops or replaces one, so a constructor completes at most once per
\* pair (one that throws memoizes nothing and runs again on the next call);
\* every compliant make returns the executor the map holds for the pair.
C7_ShellCreatedOncePerPair ==
    [][ /\ \A e \in factories :
               \E f \in factories' : f.id = e.id /\ f.factoryId = e.factoryId
        /\ \A e, f \in factories' : e.factoryId = f.factoryId => e.id = f.id
        /\ IsCall => /\ Len(call'.ctor) <= 1
                     /\ \A k \in 1..Len(call'.ctor) :
                            \A e \in factories : e.factoryId # call'.ctor[k]
        /\ (IsCall /\ call'.op = "make" /\ call'.compliant /\ call'.outcome = "ok")
               => /\ \E e \in factories' :
                         e.factoryId = FactoryId(call'.sel) /\ call'.ret = ShellHandle(e)
                  /\ \A e \in factories :
                         e.factoryId = FactoryId(call'.sel) => call'.ret.id = e.id ]_vars

\* a constructor that threw, ran again for the same pair and then completed
C7_Witness ==
    /\ \E i, j \in 1..Len(invoked) : i < j /\ invoked[i] = invoked[j]
    /\ \E e \in factories : e.factoryId = invoked[Len(invoked)]
    /\ call.op \in {"make", "preconfigure"} /\ call.outcome = "ok"

\* C8: a compliant make that has an executor (newly built or taken from the
\* memo map) calls update(Config.descs, memory) on it exactly once before it
\* returns it; the executor a make returned, and so the one execute runs on,
\* has been updated.
C8_UpdateOncePerMake ==
    /\ (call.op = "make" /\ call.compliant /\ call.outcome \in {"ok", "updateThrows"})
           => /\ Len(call.updates) = 1
              /\ call.updates[1].descs = call.key.descs
              /\ \E e \in factories :
                     e.factoryId = FactoryId(call.sel) /\ e.id = call.updates[1].id
    /\ (call.op = "make" /\ call.compliant /\ call.outcome = "ok")
           => /\ call.ret.kind = "shell"
              /\ call.ret.id = call.updates[1].id
              /\ \A e \in factories :
                     e.id = call.ret.id => e.updated /\ e.descs = call.key.descs
    /\ executor.kind = "shell"
           => \E e \in factories : e.id = executor.id /\ e.updated
    /\ (call.op = "execute" /\ call.ret.kind = "shell")
           => \E e \in factories : e.id = call.ret.id /\ e.updated

\* a make that took an executor built by an earlier call from the memo map
\* and updated it
C8_Witness ==
    /\ call.op = "make" /\ call.compliant /\ call.outcome = "ok"
    /\ call.ctor = << >>
    /\ call.ret.id < nCalls
    /\ Len(call.updates) = 1

\* C9: the executor a make returns for a Config its implementation supports
\* is consistent with the Config of that call: it works with the attributes and post-ops of that Config and is
\* bound to its descriptors.
C9_ExecutorConsistentWithConfig ==
    ( /\ call.op = "make" /\ call.compliant /\ call.outcome = "ok"
      /\ isSupported(call.sel, call.key) )
        => \A e \in factories :
               e.id = call.ret.id
                   => /\ e.ctorAttrs = call.key.attrs
                      /\ e.ctorPostOps = call.key.postOps
                      /\ e.attrs = call.key.attrs
                      /\ e.descs = call.key.descs

\* C10: when the selected implementation reports the Config not fully
\* compliant, make hands the requested Config and the coerced Config to the
\* fallback and returns what the fallback built; it creates, memoizes and
\* updates no executor of its own.
C10_NonCompliantMakeFallsBack ==
    [][ ( /\ IsCall
          /\ call'.op = "make" /\ call'.outcome # "noSelection"
          /\ ~isFullyCompliant(call'.sel, call'.key).first )
        => /\ call'.fallback = << call'.key, isFullyCompliant(call'.sel, call'.key).second >>
           /\ call'.ctor = << >> /\ call'.updates = << >>
           /\ factories' = factories /\ invoked' = invoked
           /\ call'.outcome = "ok" => call'.ret.kind = "graph" /\ executor' = call'.ret
           /\ call'.outcome # "ok" => call'.ret = NoExecutor /\ executor' = executor ]_vars

\* a make whose Config had to be coerced and that returned the substitute
C10_Witness ==
    /\ call.op = "make" /\ call.outcome = "ok"
    /\ ~call.compliant
    /\ call.ret.kind = "graph" /\ executor = call.ret
    /\ call.fallback[2] # call.key
(***************************************************************************)
(* The equality operators of the cache keys and of the attributes applied  *)
(* to pairs of values, null pointers included.                             *)
(***************************************************************************)
\* per port: no object, two objects holding the same descriptor, and for
\* the source and the weights an object holding another descriptor
SrcPtrChoices == { NullDescPtr } \cup SrcDescPtrs

WeiPtrChoices == { WeiDescPtr, DescPtr(6, << "i8", << 96, 96 >> >>) }

BiasPtrChoices == { NullDescPtr, EmptyBiasDescPtr(1), EmptyBiasDescPtr(2) }

DstPtrChoices == { NullDescPtr, DstDescPtr, DescPtr(7, DstDescPtr.md) }

ConvKeyChoices ==
    { DnnlConvKey(s, w, b, d, a) :
        s \in SrcPtrChoices, w \in WeiPtrChoices, b \in BiasPtrChoices, d \in DstPtrChoices,
        a \in PrimAttrs }

FcKeyChoices ==
    { DnnlFcKey(s, w, b, d, "attr", fl[1], fl[2]) :
        s \in SrcPtrChoices, w \in WeiPtrChoices, b \in BiasPtrChoices, d \in DstPtrChoices,
        fl \in BOOLEAN \X BOOLEAN }

MemoryPtrChoices == { NullPtr, MemoryPtr(<< 96 >>), MemoryPtr(<< 1 >>) }

AttrsChoices ==
    { FCAttrs(fl[1], fl[2], fl[3], dq, sub, mul) :
        fl \in BOOLEAN \X BOOLEAN \X BOOLEAN, dq \in {0, 1},
        sub \in MemoryPtrChoices, mul \in MemoryPtrChoices }

\* FCAttrs::operator== reaches rhs.decompressionSubtractPtr->getShape() with
\* a null rhs.decompressionSubtractPtr
FCAttrsEqReadsNull(lhs, rhs) ==
    /\ lhs.withBias = rhs.withBias
    /\ lhs.weightsNonTransposed = rhs.weightsNonTransposed
    /\ lhs.sparseWeights = rhs.sparseWeights
    /\ ~lhs.decompressionMultiplyPtr.null
    /\ ~rhs.decompressionMultiplyPtr.null
    /\ lhs.decompressionMultiplyPtr.dims = rhs.decompressionMultiplyPtr.dims
    /\ ~lhs.decompressionSubtractPtr.null
    /\ rhs.decompressionSubtractPtr.null

\* the seeds FCAttrs::hash is called with
Seeds == {0, 1}

\* size_t FCAttrs::hash(size_t seed) const, as the sequence of values
\* combined; a null decompression pointer contributes nothing
FCAttrsHash(attrs, seed) ==
    << seed, attrs.withBias, attrs.weightsNonTransposed, attrs.sparseWeights,
       attrs.dequantizationScales >>
        \o (IF attrs.decompressionSubtractPtr.null THEN << >>
            ELSE << attrs.decompressionSubtractPtr.dims >>)
        \o (IF attrs.decompressionMultiplyPtr.null THEN << >>
            ELSE << attrs.decompressionMultiplyPtr.dims >>)

\* equal: lhs == rhs; converse: rhs == lhs; the hashes of both operands
Compared(op, lhs, rhs, equal, converse, lhsHash, rhsHash) ==
    [CallRec(op, NoKey) EXCEPT !.lhs = lhs, !.rhs = rhs, !.equal = equal,
                               !.converse = converse,
                               !.lhsHash = lhsHash, !.rhsHash = rhsHash]

\* lhs == rhs for two DnnlFcKey values
CompareFcKeys ==
    /\ call.op = "none"
    /\ \E lhs \in FcKeyChoices, rhs \in FcKeyChoices :
          call' = Compared("DnnlFcKey::operator==", lhs, rhs, DnnlFcKeyEq(lhs, rhs),
                           DnnlFcKeyEq(rhs, lhs), DnnlFcKeyHash(lhs), DnnlFcKeyHash(rhs))
    /\ UNCHANGED << env, suitableImplementations, factories, executor, nCalls, filters,
                    invoked, runtimeCache, callers, builds, received >>

\* lhs == rhs for two DnnlConvKey values
CompareConvKeys ==
    /\ call.op = "none"
    /\ \E lhs \in ConvKeyChoices, rhs \in ConvKeyChoices :
          call' = Compared("DnnlConvKey::operator==", lhs, rhs, DnnlConvKeyEq(lhs, rhs),
                           DnnlConvKeyEq(rhs, lhs), DnnlConvKeyHash(lhs), DnnlConvKeyHash(rhs))
    /\ UNCHANGED << env, suitableImplementations, factories, executor, nCalls, filters,
                    invoked, runtimeCache, callers, builds, received >>

\* lhs == rhs for two FCAttrs values; the read through a null pointer has
\* no defined result
CompareAttrs ==
    /\ call.op = "none"
    /\ \E lhs \in AttrsChoices, rhs \in AttrsChoices, undefinedResult \in BOOLEAN :
          call' = Compared("FCAttrs::operator==", lhs, rhs,
                           IF FCAttrsEqReadsNull(lhs, rhs) THEN undefinedResult
                           ELSE FCAttrsEq(lhs, rhs),
                           IF FCAttrsEqReadsNull(rhs, lhs) THEN undefinedResult
                           ELSE FCAttrsEq(rhs, lhs),
                           [seed \in Seeds |-> FCAttrsHash(lhs, seed)],
                           [seed \in Seeds |-> FCAttrsHash(rhs, seed)])
    /\ UNCHANGED << env, suitableImplementations, factories, executor, nCalls, filters,
                    invoked, runtimeCache, callers, builds, received >>

EqualityNext ==
    \/ CompareFcKeys
    \/ CompareConvKeys
    \/ CompareAttrs

EqualitySpec == CacheInit /\ [][EqualityNext]_vars

(***************************************************************************)
(* DnnlFCExecutor<DnnlFCPrimitive, FCAttrs, DnnlShapeAgnosticData>         *)
(* (specification ExecutorSpec).  The variable executor holds the fields   *)
(* of one executor object:                                                 *)
(*   m_primitive               : the primitive bound by the last update    *)
(*   m_primArgs                : the dnnl::memory bound to each argument   *)
(*   resetSrcMemoryDataHandle, resetDstMemoryDataHandle                    *)
(* A dnnl::memory is its descriptor, its data handle and the Memory object *)
(* it belongs to ("" for one created by the executor).                     *)
(***************************************************************************)
DnnlMemory(desc, handle, of) == [desc |-> desc, handle |-> handle, of |-> of]

NoDnnlMemory == DnnlMemory(<< >>, "", "")

NoPrimitive == [null |-> TRUE, srcDesc |-> << >>, dstDesc |-> << >>, impl |-> ""]

\* a Memory object of the node: memory->getData() is its buffer
Memory(name, dims, data) == [name |-> name, dims |-> dims, data |-> data]

\* memory->getPrimitive()
getPrimitive(memory) == DnnlMemory(memory.dims, memory.data, memory.name)

normalizeDimsTo2D(dims) == << dims[1] * dims[2], dims[3] >>

normalizeDescriptor(dims) == IF Len(dims) = 3 THEN normalizeDimsTo2D(dims) ELSE dims

\* the primitive DnnlFCPrimitive::create returns for the descriptors; impl is
\* the implementation oneDNN picked, which fixes the weights format and the
\* scratchpad
Primitive(inDims, outDims, impl) ==
    [null |-> FALSE, srcDesc |-> normalizeDescriptor(inDims),
     dstDesc |-> normalizeDescriptor(outDims), impl |-> impl]

weightsDesc(primitive) == << "weights", primitive.impl >>

scratchPadDesc(primitive) == << "scratchpad", primitive.impl >>

\* memDesc->isCompatible(*primMemDesc)
isCompatible(memDesc, primMemDesc) == memDesc = primMemDesc

NewDnnlFCExecutor ==
    [m_primitive |-> NoPrimitive,
     m_primArgs |-> [src |-> NoDnnlMemory, dst |-> NoDnnlMemory, wei |-> NoDnnlMemory,
                     bias |-> NoDnnlMemory, scratchpad |-> NoDnnlMemory],
     resetSrcMemoryDataHandle |-> FALSE,
     resetDstMemoryDataHandle |-> FALSE]

updateSrcMemory(e, memDesc, primitive, memory) ==
    IF isCompatible(memDesc, primitive.srcDesc)
    THEN [e EXCEPT !.m_primArgs.src = getPrimitive(memory)]
    ELSE [e EXCEPT !.resetSrcMemoryDataHandle = TRUE,
                   !.m_primArgs.src = DnnlMemory(primitive.srcDesc, memory.data, "")]

updateDstMemory(e, memDesc, primitive, memory) ==
    IF isCompatible(memDesc, primitive.dstDesc)
    THEN [e EXCEPT !.m_primArgs.dst = getPrimitive(memory)]
    ELSE [e EXCEPT !.resetDstMemoryDataHandle = TRUE,
                   !.m_primArgs.dst = DnnlMemory(primitive.dstDesc, memory.data, "")]

\* whether updateWeightsMemory calls prepareWeightsMemory
preparesWeights(currentPrimitive, newPrimitive) ==
    ~( /\ ~currentPrimitive.null
       /\ isCompatible(weightsDesc(currentPrimitive), weightsDesc(newPrimitive)) )

\* a weights update that prepares the weights for the first primitive only
updateWeightsMemoryFirstOnly(e, currentPrimitive, newPrimitive, memory) ==
    IF ~currentPrimitive.null
    THEN e
    ELSE [e EXCEPT !.m_primArgs.wei =
                       DnnlMemory(weightsDesc(newPrimitive), "packed", memory.name)]

updateWeightsMemory(e, currentPrimitive, newPrimitive, memory) ==
    IF ~preparesWeights(currentPrimitive, newPrimitive)
    THEN e
    ELSE [e EXCEPT !.m_primArgs.wei =
                       DnnlMemory(weightsDesc(newPrimitive), "packed", memory.name)]

updateBiasMemory(e, memory) == [e EXCEPT !.m_primArgs.bias = getPrimitive(memory)]

updateScratchPadMem(e, currentPrimitive, newPrimitive) ==
    IF /\ ~currentPrimitive.null
       /\ isCompatible(scratchPadDesc(currentPrimitive), scratchPadDesc(newPrimitive))
    THEN e
    ELSE [e EXCEPT !.m_primArgs.scratchpad =
                       DnnlMemory(scratchPadDesc(newPrimitive), "scratchpad", "")]

\* the arguments of one call: descs.src[0] and descs.dst[0] are the
\* descriptors of memory.at(ARG_SRC) and memory.at(ARG_DST)
MemoryArgs(inDims, outDims, buffer) ==
    [src  |-> Memory("src" \o buffer, inDims, "srcData" \o buffer),
     dst  |-> Memory("dst" \o buffer, outDims, "dstData" \o buffer),
     wei  |-> Memory("wei", << 96, 96 >>, "weiData"),
     bias |-> Memory("bias", << 96 >>, "biasData")]

\* updateMemory up to the call of prepareWeightsMemory
updateMemoryBeforeWeights(e, newPrimitive, memory) ==
    updateDstMemory(updateSrcMemory(e, memory.src.dims, newPrimitive, memory.src),
                    memory.dst.dims, newPrimitive, memory.dst)

updateMemory(e, currentPrimitive, newPrimitive, memory) ==
    updateScratchPadMem(
        updateBiasMemory(
            updateWeightsMemory(updateMemoryBeforeWeights(e, newPrimitive, memory),
                                currentPrimitive, newPrimitive, memory.wei),
            memory.bias),
        currentPrimitive, newPrimitive)

\* an execute that runs the primitive on the arguments as update left them
primArgsAtExecuteStale(e, memory) == e.m_primArgs

\* DnnlFCExecutor::execute: the arguments the primitive is executed with
primArgsAtExecute(e, memory) ==
    LET a1 == IF e.resetSrcMemoryDataHandle
              THEN [e.m_primArgs EXCEPT !.src.handle = memory.src.data]
              ELSE e.m_primArgs
    IN  IF e.resetDstMemoryDataHandle
        THEN [a1 EXCEPT !.dst.handle = memory.dst.data]
        ELSE a1

\* the number of update and execute calls that are followed
MaxExecutorCalls == 3

SrcDimsSet == { << 2, 96 >>, << 1, 2, 96 >> }

DstDimsSet == { << 2, 96 >>, << 1, 2, 96 >> }

Buffers == {"1", "2"}

PrimitiveImpls == {"brgemm", "jit"}

ExecutorInit ==
    /\ env = Environment(TRUE, TRUE, "avx512_core", TRUE)
    /\ suitableImplementations = << >>
    /\ factories = {}
    /\ executor = NewDnnlFCExecutor
    /\ call = CallRec("none", NoKey)
    /\ nCalls = 0
    /\ filters = << >>
    /\ invoked = << >>
    /\ runtimeCache = {}
    /\ callers = [t \in Callers |-> IdleCaller]
    /\ builds = {}
    /\ received = {}

\* void update(descs, memory).  throws: "create" when createPrimitive throws,
\* "prepare" when prepareWeightsMemory throws, "" when nothing throws
Update(memory, impl, throws) ==
    LET primitive == Primitive(memory.src.dims, memory.dst.dims, impl)
        prepares  == preparesWeights(executor.m_primitive, primitive)
        done      == updateMemory(executor, executor.m_primitive, primitive, memory)
    IN  /\ nCalls < MaxExecutorCalls
        /\ nCalls' = nCalls + 1
        /\ throws = "prepare" => prepares
        /\ executor' = CASE throws = "create"  -> executor
                          [] throws = "prepare" -> updateMemoryBeforeWeights(executor, primitive, memory)
                          [] OTHER              -> [done EXCEPT !.m_primitive = primitive]
        /\ call' = [CallRec("update", NoKey) EXCEPT
                       !.memory = memory,
                       !.prim = IF throws = "create" THEN NoPrimitive ELSE primitive,
                       !.prepared = (throws # "create" /\ prepares),
                       !.outcome = IF throws = "" THEN "ok" ELSE throws \o "Throws"]
        /\ UNCHANGED << env, suitableImplementations, factories, filters, invoked,
                        runtimeCache, callers, builds, received >>

\* void execute(memory), on an executor that has a primitive
ExecuteDnnlFC(memory) ==
    /\ nCalls < MaxExecutorCalls
    /\ nCalls' = nCalls + 1
    /\ ~executor.m_primitive.null
    /\ executor' = [executor EXCEPT !.m_primArgs = primArgsAtExecute(executor, memory)]
    /\ call' = [CallRec("execute", NoKey) EXCEPT
                   !.memory = memory,
                   !.prim = executor.m_primitive,
                   !.executed = primArgsAtExecute(executor, memory)]
    /\ UNCHANGED << env, suitableImplementations, factories, filters, invoked,
                    runtimeCache, callers, builds, received >>

ExecutorNext ==
    \/ \E inDims \in SrcDimsSet, outDims \in DstDimsSet, buffer \in Buffers,
          impl \in PrimitiveImpls, throws \in {"", "create", "prepare"} :
          Update(MemoryArgs(inDims, outDims, buffer), impl, throws)
    \/ \E inDims \in SrcDimsSet, outDims \in DstDimsSet, buffer \in Buffers :
          ExecuteDnnlFC(MemoryArgs(inDims, outDims, buffer))

ExecutorSpec == ExecutorInit /\ [][ExecutorNext]_vars

(***************************************************************************)
(* FullyConnected::initSupportedPrimitiveDescriptors: the sparse-weights   *)
(* attribute (specification SparseSpec).  Rates are in percent; the        *)
(* weights are dims2D[1] * dims2D[2] int8 elements, zerosCount of them 0 *)
(***************************************************************************)
WeightsInput(isConst, dims2D, weightsType, zerosCount) ==
    [isConst |-> isConst, weiDims |-> dims2D, weightsType |-> weightsType,
     zerosCount |-> zerosCount]

\* static bool useSparseWeightsDecompression(weightsInput, inputType,
\* sparseWeiDecompressionRate); amx: mayiuse(avx512_core_amx)
useSparseWeightsDecompression(weightsInput, inputType, minSparseRate, amx) ==
    LET dims2D       == weightsInput.weiDims
        elementsCount == Product(dims2D)
    IN  IF minSparseRate = 100 THEN FALSE
        ELSE IF ~amx THEN FALSE
        ELSE IF ~weightsInput.isConst THEN FALSE
        ELSE IF Len(dims2D) # 2 \/ dims2D[1] % 64 # 0 \/ dims2D[2] % 64 # 0 THEN FALSE
        ELSE IF inputType \notin {"u8", "i8"} \/ weightsInput.weightsType # "i8" THEN FALSE
        ELSE \* sparseRate < minSparseRate
             weightsInput.zerosCount * 100 < minSparseRate * elementsCount

SparseWeiDims == { << 64, 64 >>, << 64, 96 >>, << 2, 64, 64 >> }

SparseRates == {0, 50, 100}

\* a quarter, a half, all or none of the elements are zero
ZeroQuarters == 0..4

WeightsInputs ==
    { WeightsInput(isConst, dims2D, wt, (q * Product(dims2D)) \div 4) :
        isConst \in BOOLEAN, dims2D \in SparseWeiDims, wt \in {"i8", "f32"},
        q \in ZeroQuarters }

\* attrs.sparseWeights = useSparseWeightsDecompression(...)
InitSparseWeights ==
    /\ call.op = "none"
    /\ \E weightsInput \in WeightsInputs, inputType \in {"u8", "i8", "f32"},
          minSparseRate \in SparseRates, amx \in BOOLEAN :
          call' = [CallRec("useSparseWeightsDecompression", NoKey) EXCEPT
                      !.args = [weightsInput |-> weightsInput, inputType |-> inputType,
                                minSparseRate |-> minSparseRate, amx |-> amx],
                      !.result = useSparseWeightsDecompression(weightsInput, inputType,
                                                               minSparseRate, amx)]
    /\ UNCHANGED << env, suitableImplementations, factories, executor, nCalls, filters,
                    invoked, runtimeCache, callers, builds, received >>

SparseNext == InitSparseWeights

SparseSpec == CacheInit /\ [][SparseNext]_vars

(***************************************************************************)
(* Properties of the fallback chain, the compliance check and the type     *)
(* tables (specification FunctionsSpec)                                    *)
(***************************************************************************)

\* C11: the fallback path returns a substitute executor only when the
\* attributes, the source descriptors, the destination descriptors and the
\* post-ops of the requested and the coerced configuration all match; the
\* checks run in that order, so the error reported is that of the first
\* check that fails, and with any mismatch no executor is returned.
C11_FallbackChecksInOrder ==
    call.op = "fallback" =>
        LET key       == call.fallback[1]
            actualKey == call.fallback[2]
            attrsOk   == FCAttrsEq(key.attrs, actualKey.attrs)
            srcOk     == \A i \in 1..3 : key.descs.src[i].dims = actualKey.descs.src[i].dims
            dstOk     == key.descs.dst[1].dims = actualKey.descs.dst[1].dims
            postOpsOk == key.postOps = actualKey.postOps
        IN  /\ call.ret.kind = "graph" <=> (attrsOk /\ srcOk /\ dstOk /\ postOpsOk)
            /\ call.ret.kind # "graph" => call.ret = NoExecutor /\ call.outcome # "ok"
            /\ ~attrsOk => call.outcome = "attrsMismatch"
            /\ attrsOk /\ ~srcOk => call.outcome = "srcDescsMismatch"
            /\ attrsOk /\ srcOk /\ ~dstOk => call.outcome = "dstDescsMismatch"
            /\ attrsOk /\ srcOk /\ dstOk /\ ~postOpsOk => call.outcome = "postOpsMismatch"

\* a fallback whose source descriptors and post-ops both differ, stopped at
\* the source descriptors
C11_Witness ==
    /\ call.op = "fallback"
    /\ call.outcome = "srcDescsMismatch"
    /\ call.fallback[1].postOps # call.fallback[2].postOps
    /\ call.ret = NoExecutor

\* the entries of the registry whose isFullyCompliant is isFullyCompliantCommon
UsesTypeMapping(impl) == impl.name \in {"convolution_1x1_dnnl", "fullyconnected_dnnl"}

\* the translator's ideal types of an implementation for a configuration
IdealTypes(impl, key) ==
    getTypeConfiguration(IF impl.name = "convolution_1x1_dnnl"
                         THEN dnnlConvolutionTypeMapping ELSE dnnlFCTypeMapping, key.descs)

\* element type equal to the ideal one or undefined, and the ncsp layout
PortMatches(desc, ideal) == desc.prec \in {ideal, "undefined"} /\ desc.ncsp

AllPortsMatch(descs, typeConfig) ==
    /\ \A i \in 1..Len(descs.src) : PortMatches(descs.src[i], typeConfig.first[i])
    /\ PortMatches(descs.dst[1], typeConfig.second)

ComplianceOps == {"isFullyCompliant", "resubmit"}

\* C12: isFullyCompliant answers true exactly when every source descriptor
\* and the destination descriptor has the ideal element type of its port (or
\* the undefined type) and the required layout, and a true answer carries the
\* configuration unchanged; the entry that has no type table accepts every
\* configuration unchanged.
C12_CompliantIffPortsMatch ==
    call.op \in ComplianceOps =>
        /\ UsesTypeMapping(call.sel) =>
              (call.compliant <=> AllPortsMatch(call.key.descs, IdealTypes(call.sel, call.key)))
        /\ ~UsesTypeMapping(call.sel) => call.compliant
        /\ call.compliant => call.second = call.key

\* the dnnl entry declines a configuration whose element types are all ideal
\* because one descriptor has another layout
C12_Witness ==
    /\ call.op = "isFullyCompliant"
    /\ call.sel = DnnlFCImpl
    /\ ~call.compliant
    /\ \A i \in 1..3 : call.key.descs.src[i].prec
                            \in {IdealTypes(call.sel, call.key).first[i], "undefined"}
    /\ call.key.descs.dst[1].prec = IdealTypes(call.sel, call.key).second

\* C13: the Config' that isFullyCompliant returns has as many source and
\* destination ports as the Config it was given, every port keeps its shape
\* (and so its rank), and the attributes and the post-ops are those of the
\* Config given.
C13_ProjectionKeepsShapes ==
    call.op \in ComplianceOps =>
        /\ Len(call.second.descs.src) = Len(call.key.descs.src)
        /\ Len(call.second.descs.dst) = Len(call.key.descs.dst)
        /\ \A i \in 1..Len(call.key.descs.src) :
              /\ i <= Len(call.second.descs.src)
              /\ call.second.descs.src[i].dims = call.key.descs.src[i].dims
        /\ \A i \in 1..Len(call.key.descs.dst) :
              /\ i <= Len(call.second.descs.dst)
              /\ call.second.descs.dst[i].dims = call.key.descs.dst[i].dims
        /\ call.second.attrs = call.key.attrs
        /\ call.second.postOps = call.key.postOps

\* a non-compliant answer that replaces one descriptor and keeps another, for
\* a configuration that has a post-op
C13_Witness ==
    /\ call.op = "isFullyCompliant"
    /\ ~call.compliant
    /\ call.second.descs.src[1] # call.key.descs.src[1]
    /\ call.second.descs.src[2] = call.key.descs.src[2]
    /\ call.key.postOps # << >>

\* C14: when a Config is not compliant, every descriptor of the returned
\* Config' has the ideal element type of its port (or the undefined type) and
\* the required layout.
C14_CoercedToIdeal ==
    call.op \in ComplianceOps /\ ~call.compliant =>
        AllPortsMatch(call.second.descs, IdealTypes(call.sel, call.key))

\* C15: for every implementation and every Config it reports non-compliant,
\* the returned Config' submitted to isFullyCompliant of the same
\* implementation is reported compliant.
C15_RoundTrip ==
    call.op = "resubmit" => call.compliant

\* the entries of a table whose masks contain the element types of a configuration
MatchingRules(mapping, key) ==
    {k \in 1..Len(mapping) :
        /\ \A i \in 1..Len(key.descs.src) : key.descs.src[i].prec \in mapping[k].inMask[i]
        /\ key.descs.dst[1].prec \in mapping[k].outMask}

FirstRule(ms) == CHOOSE k \in ms : \A l \in ms : k <= l

\* the translation of one entry, written out per policy
Translated(rule, key) ==
    LET Port(p, i) == CASE p = "out"    -> key.descs.dst[1].prec
                        [] p = "in0"    -> key.descs.src[1].prec
                        [] p = "bypass" -> key.descs.src[i].prec
                        [] p = "f32"    -> "f32"
    IN  [first  |-> << Port(rule.pt[1], 1), Port(rule.pt[2], 2), Port(rule.pt[3], 3) >>,
         second |-> Port(rule.pt[4], 1)]

\* C17: the lookup tries the entries in declared order; an entry matches
\* when every input type lies in its input mask and the output type lies in
\* its output mask, and the result is the translation of the first matching
\* entry, whatever later entries match.
C17_FirstMatchWins ==
    call.op = "getTypeConfiguration" =>
        LET ms == MatchingRules(call.table, call.key)
        IN  ms # {} => call.typeConfig = Translated(call.table[FirstRule(ms)], call.key)

\* a lookup in which two entries match and translate differently
C17_Witness ==
    /\ call.op = "getTypeConfiguration"
    /\ \E k, l \in MatchingRules(call.table, call.key) :
          /\ k < l
          /\ Translated(call.table[k], call.key) # Translated(call.table[l], call.key)
          /\ call.typeConfig = Translated(call.table[k], call.key)

\* C18: when no entry of the table matches, the lookup answers f32 for every
\* source port, one type per source descriptor, and f32 for the destination,
\* and raises no error.
C18_MissDefaultsToF32 ==
    call.op = "getTypeConfiguration" /\ MatchingRules(call.table, call.key) = {} =>
        /\ Len(call.typeConfig.first) = Len(call.key.descs.src)
        /\ \A i \in 1..Len(call.key.descs.src) : call.typeConfig.first[i] = "f32"
        /\ call.typeConfig.second = "f32"
        /\ call.outcome = "ok"

\* a miss for a configuration none of whose types is f32
C18_Witness ==
    /\ call.op = "getTypeConfiguration"
    /\ MatchingRules(call.table, call.key) = {}
    /\ \A i \in 1..3 : call.key.descs.src[i].prec # "f32"
    /\ call.key.descs.dst[1].prec # "f32"
    /\ call.typeConfig.second = "f32"

\* the entry {{u8|i8, i8, any}, any}
IsQuantizationRule(rule) ==
    rule.inMask = << {"u8", "i8"}, {"i8"}, Any_ >> /\ rule.outMask = Any_

\* source u8, weights i8 and destination u8, and the first entry of the table
\* that matches is the quantization rule
QuantizationLookup ==
    /\ call.op = "getTypeConfiguration"
    /\ call.key.descs.src[1].prec = "u8"
    /\ call.key.descs.src[2].prec = "i8"
    /\ call.key.descs.dst[1].prec = "u8"
    /\ MatchingRules(call.table, call.key) # {}
    /\ IsQuantizationRule(call.table[FirstRule(MatchingRules(call.table, call.key))])

\* C19 as stated: source types {u8, i8} and destination u8 matched by the
\* quantization rule yield the desired input types {u8, i8, u8} and the
\* desired destination type u8.
C19_QuantizationYieldsU8Bias ==
    QuantizationLookup =>
        call.typeConfig = [first |-> << "u8", "i8", "u8" >>, second |-> "u8"]

\* C19 amended: the desired source, weights and destination types are u8, i8
\* and u8; the desired bias type is the output type u8 under
\* dnnlConvolutionTypeMapping and the type of the bias descriptor under
\* dnnlFCTypeMapping, whose quantization rule passes every input through.
C19_QuantizationPerTable ==
    QuantizationLookup =>
        /\ call.typeConfig.first[1] = "u8"
        /\ call.typeConfig.first[2] = "i8"
        /\ call.typeConfig.second = "u8"
        /\ Len(call.typeConfig.first) = 3
        /\ call.typeConfig.first[3] = IF call.table = dnnlConvolutionTypeMapping
                                      THEN "u8" ELSE call.key.descs.src[3].prec

\* the quantization rule of dnnlFCTypeMapping applied with an f32 bias
C19_Witness ==
    /\ QuantizationLookup
    /\ call.table = dnnlFCTypeMapping
    /\ call.key.descs.src[3].prec = "f32"
    /\ call.typeConfig = [first |-> << "u8", "i8", "f32" >>, second |-> "u8"]

(***************************************************************************)
(* Properties of the runtime cache (specification CacheSpec)               *)
(***************************************************************************)

\* keys of one key type whose descriptors, attributes and flags have equal content
SameKey(kind, a, b) ==
    /\ a.src.md = b.src.md /\ a.wei.md = b.wei.md
    /\ a.bias.md = b.bias.md /\ a.dst.md = b.dst.md
    /\ a.attr = b.attr
    /\ kind = "fc" => /\ a.sparseWeights = b.sparseWeights
                      /\ a.transposedWeights = b.transposedWeights

KeyEqualityOps == {"DnnlFcKey::operator==", "DnnlConvKey::operator=="}

\* the same object, or two objects that hold equal descriptors
SameOrStructurallyEqual(a, b) == a.id = b.id \/ (a.id # 0 /\ b.id # 0 /\ a.md = b.md)

\* C21: two cache keys compare equal iff for each of src, weights, bias and
\* dst the descriptor objects are identical or both are present and
\* structurally equal, the primitive attributes are equal and, for the FC
\* key, the sparse-weights and the transposed-weights flags are equal.
C21_KeyEqualityIsStructural ==
    call.op \in KeyEqualityOps =>
        (call.equal <=>
            /\ SameOrStructurallyEqual(call.lhs.src, call.rhs.src)
            /\ SameOrStructurallyEqual(call.lhs.wei, call.rhs.wei)
            /\ SameOrStructurallyEqual(call.lhs.bias, call.rhs.bias)
            /\ SameOrStructurallyEqual(call.lhs.dst, call.rhs.dst)
            /\ call.lhs.attr = call.rhs.attr
            /\ call.op = "DnnlFcKey::operator==" =>
                  /\ call.lhs.sparseWeights = call.rhs.sparseWeights
                  /\ call.lhs.transposedWeights = call.rhs.transposedWeights)

\* two FC keys that are equal although one port holds distinct objects and
\* another holds no object on both sides
C21_Witness ==
    /\ call.op = "DnnlFcKey::operator=="
    /\ call.equal
    /\ call.lhs.bias.id # call.rhs.bias.id
    /\ call.lhs.dst.id = 0 /\ call.rhs.dst.id = 0

\* FCAttrs values with the same content
SameAttrs(a, b) ==
    /\ a.withBias = b.withBias
    /\ a.weightsNonTransposed = b.weightsNonTransposed
    /\ a.sparseWeights = b.sparseWeights
    /\ a.dequantizationScales = b.dequantizationScales
    /\ a.decompressionMultiplyPtr.null = b.decompressionMultiplyPtr.null
    /\ a.decompressionMultiplyPtr.dims = b.decompressionMultiplyPtr.dims
    /\ a.decompressionSubtractPtr.null = b.decompressionSubtractPtr.null
    /\ a.decompressionSubtractPtr.dims = b.decompressionSubtractPtr.dims

\* C22: two FCAttrs values compare equal iff their flags, the size of their
\* dequantization scales and their decompression tensors (both absent, or
\* both present with equal dims) match; in particular a value equals itself.
C22_AttrsEqualByContent ==
    call.op = "FCAttrs::operator==" => (call.equal <=> SameAttrs(call.lhs, call.rhs))

(***************************************************************************)
(* Further properties of the factory (specification Spec)                  *)
(***************************************************************************)

\* C23: preconfigureMemoryDescriptors answers the descriptors of the Config
\* when the selected implementation is fully compliant and the descriptors
\* of the coerced Config' otherwise; it creates no executor and leaves the
\* supported list, the memo map and the node's executor as they were.
C23_PreconfigureDescriptorsIsQuery ==
    [][IsCall /\ call'.op = "preconfigureMemoryDescriptors" =>
          /\ suitableImplementations' = suitableImplementations
          /\ factories' = factories
          /\ executor' = executor
          /\ invoked' = invoked
          /\ call'.ctor = << >>
          /\ call'.outcome = "ok" =>
                LET impl == suitableImplementations[select(suitableImplementations, call'.key)]
                    res  == isFullyCompliant(impl, call'.key)
                IN  /\ call'.sel = impl
                    /\ res.first => call'.retDescs = call'.key.descs
                    /\ ~res.first => call'.retDescs = res.second.descs]_vars

\* a query on a factory that holds an executor, answered with coerced descriptors
C23_Witness ==
    /\ call.op = "preconfigureMemoryDescriptors"
    /\ call.outcome = "ok"
    /\ ~call.compliant
    /\ call.retDescs # call.key.descs
    /\ factories # {}

CreatingOps == {"make", "preconfigure"}

\* C24: when a constructor throws inside make or preconfigure, the call ends
\* with that error and returns no executor, the constructor was run once by
\* the call, the memo map is as it was and holds no entry for the pair, and
\* the next make or preconfigure that needs the pair runs the constructor
\* again.
C24_FailedConstructionLeavesNoEntry ==
    [][IsCall =>
          /\ call'.outcome = "createThrows" =>
                /\ call'.op \in CreatingOps
                /\ Len(call'.ctor) = 1
                /\ call'.ctor[1] = FactoryId(call'.sel)
                /\ call'.ret = NoExecutor
                /\ executor' = executor
                /\ factories' = factories
                /\ Find(factories', FactoryId(call'.sel)) = {}
          /\ ( /\ call.outcome = "createThrows"
               /\ call'.op \in CreatingOps
               /\ call'.outcome # "noSelection"
               /\ FactoryId(call'.sel) = FactoryId(call.sel)
               /\ call'.op = "make" => call'.compliant )
             => call'.ctor = << FactoryId(call'.sel) >>]_vars

\* a constructor that threw and was run again, with success, by a later call
C24_Witness ==
    /\ Len(invoked) = 2
    /\ invoked[1] = invoked[2]
    /\ call.outcome = "ok"
    /\ call.ctor # << >>
    /\ Cardinality(factories) = 1

\* the names of the entries of a list
Names(list) == {list[i].name : i \in 1..Len(list)}

\* C25: with the fullyconnected_dnnl entry registered, a filter call without
\* a priority name never fails and appends fullyconnected_dnnl unless it
\* stopped at fullyconnected_mlas, fullyconnected_dnnl supports every Config
\* and suits every shape, and after filter calls without a priority name
\* select never fails.
C25_GenericEntryAlwaysAvailable ==
    env.dnnl =>
        /\ call.op = "filter" /\ call.prio = "" =>
              /\ call.outcome = "ok"
              /\ isSupported(DnnlFCImpl, call.key)
              /\ isShapeSuitable(DnnlFCImpl, call.key)
              /\ "fullyconnected_dnnl" \in Names(call.appended)
                    <=> "fullyconnected_mlas" \notin Names(call.appended)
        /\ ( /\ call.op \in SelectingOps
             /\ filters # << >>
             /\ \A i \in 1..Len(filters) : filters[i] = "" )
           => /\ call.outcome # "noSelection"
              /\ isSupported(DnnlFCImpl, call.key)
              /\ isShapeSuitable(DnnlFCImpl, call.key)

\* a filter call for a Config that only the generic entry supports, and a
\* select that then finds it
C25_Witness ==
    /\ env.dnnl
    /\ call.op \in SelectingOps
    /\ filters = << "" >>
    /\ srcType(call.key) # "f32"
    /\ suitableImplementations = << DnnlFCImpl >>
    /\ call.sel = DnnlFCImpl

\* the shape condition of convolution_1x1_dnnl
Conv1x1ShapeCondition(key) ==
    LET widthInConv == srcDims(key)[srcRank(key) - 1]
        K           == srcDims(key)[srcRank(key)]
        N           == weiDims(key)[1]
    IN  /\ weiMemSize(key) < Conv1x1MaxWeightsSize
        /\ 2 <= widthInConv /\ widthInConv <= 3136
        /\ 96 <= K /\ K <= 4096
        /\ 96 <= N /\ N <= 4 * K

\* C26: when convolution_1x1_dnnl is in the supported list (and
\* fullyconnected_dnnl is registered), a selecting call chooses
\* convolution_1x1_dnnl iff the weights are smaller than 16 MiB and
\* 2 <= widthInConv <= 3136, 96 <= K <= 4096, 96 <= N <= 4K, and chooses
\* fullyconnected_dnnl for every other shape.
C26_Conv1x1ShapeTieBreak ==
    ( /\ env.dnnl
      /\ call.op \in SelectingOps
      /\ "convolution_1x1_dnnl" \in Names(suitableImplementations) )
    => /\ call.sel = Conv1x1Impl <=> Conv1x1ShapeCondition(call.key)
       /\ ~Conv1x1ShapeCondition(call.key) => call.sel = DnnlFCImpl

\* a Config without post-ops, sparse weights or a weights-decompression type
\* combination, whose src, weights and dst element types are f32
MlasAdmits(key) ==
    /\ key.postOps = << >>
    /\ ~key.attrs.sparseWeights
    /\ ~useWeightsDecompressionImpl(srcType(key), weiType(key))
    /\ srcType(key) = "f32" /\ weiType(key) = "f32" /\ dstType(key) = "f32"

\* C27: a filter call appends fullyconnected_mlas only for a Config without
\* post-ops, sparse weights or weights decompression and with f32 src,
\* weights and dst, and a selecting call for the Config the preceding filter
\* call was given selects fullyconnected_mlas only for such a Config.
C27_MlasOnlyForAdmittedConfig ==
    [][ /\ ( /\ call'.op = "filter"
             /\ "fullyconnected_mlas" \in Names(call'.appended) )
           => MlasAdmits(call'.key)
        /\ ( /\ call.op = "filter" /\ call.outcome = "ok"
             /\ call'.op \in SelectingOps
             /\ call'.key = call.key
             /\ call'.sel = MlasImpl )
           => MlasAdmits(call'.key) ]_vars

\* ---- the type tables never ask for an integer output of a float source ----

FloatTypes == {"f32", "bf16", "f16"}

RealTables == {dnnlFCTypeMapping, dnnlConvolutionTypeMapping}

\* C28: for the FullyConnected and the convolution table and every tuple of
\* element types, the desired configuration never pairs a floating-point
\* desired src type with a desired dst type of i8 or u8; an integer output
\* of a floating-point source is replaced by the src type.
C28_NoIntegerOutputForFloatSource ==
    call.op = "getTypeConfiguration" /\ call.table \in RealTables =>
        /\ call.typeConfig.first[1] \in FloatTypes
              => call.typeConfig.second \notin {"i8", "u8"}
        /\ ( /\ srcType(call.key) \in FloatTypes
             /\ dstType(call.key) \in {"i8", "u8"} )
           => /\ call.typeConfig.first[1] = srcType(call.key)
              /\ call.typeConfig.second = srcType(call.key)

\* a lookup for a bf16 source with a u8 output, answered by the entry for
\* integer outputs of float inputs
C28_Witness ==
    /\ call.op = "getTypeConfiguration"
    /\ call.table \in RealTables
    /\ srcType(call.key) = "bf16"
    /\ dstType(call.key) = "u8"
    /\ FirstRule(MatchingRules(call.table, call.key)) = 3
    /\ call.typeConfig.second = "bf16"

\* ---- eager warm-up ----

\* C29: a preconfigure call invokes the constructor of the selected
\* implementation at most once and, when it returns normally, leaves a shell
\* for the selected implementation in the memo map; the map keeps it, and a
\* compliant make that follows and selects the same implementation invokes no
\* constructor and returns that shell.
C29_EagerWarmUp ==
    [][ /\ (IsCall /\ call'.op = "preconfigure" /\ call'.outcome # "noSelection")
              => /\ Len(call'.ctor) <= 1
                 /\ \A k \in 1..Len(call'.ctor) : call'.ctor[k] = FactoryId(call'.sel)
                 /\ call'.outcome = "ok"
                       => \E e \in factories' :
                              /\ e.factoryId = FactoryId(call'.sel)
                              /\ call'.ctor # << >> => e.id = nCalls'
        /\ \A e \in factories :
               \E f \in factories' : f.id = e.id /\ f.factoryId = e.factoryId
        /\ ( /\ IsCall
             /\ call.op = "preconfigure" /\ call.outcome = "ok"
             /\ call'.op = "make" /\ call'.compliant
             /\ call'.sel = call.sel )
           => /\ call'.ctor = << >>
              /\ call'.outcome # "createThrows"
              /\ call'.outcome = "ok"
                    => \E e \in factories :
                           /\ e.factoryId = FactoryId(call.sel)
                           /\ call'.ret = ShellHandle(e) ]_vars

\* a compliant make that constructs nothing and returns the shell the call
\* before it constructed without updating it
C29_Witness ==
    /\ call.op = "make" /\ call.compliant /\ call.outcome = "ok"
    /\ call.ctor = << >>
    /\ nCalls = 3
    /\ invoked = << FactoryId(call.sel) >>
    /\ call.ret.kind = "shell" /\ call.ret.id = 2
    /\ Len(call.updates) = 1

\* ---- the supported list after several filter calls ----

\* the registration priority of an implementation
RegistrationIndex(impl) ==
    CHOOSE i \in 1..Len(fullyconnectedImplementations) :
        fullyconnectedImplementations[i] = impl

\* C30: after any sequence of filter calls the supported list holds each
\* implementation at most once, in registration order, and every entry
\* supports the Config of the most recent filter call.
C30_ListUniqueOrderedSupported ==
    (call.op = "filter" /\ call.outcome = "ok") =>
        /\ \A i, j \in 1..Len(suitableImplementations) :
               i < j => /\ suitableImplementations[i] # suitableImplementations[j]
                        /\ RegistrationIndex(suitableImplementations[i])
                              < RegistrationIndex(suitableImplementations[j])
        /\ \A i \in 1..Len(suitableImplementations) :
               isSupported(suitableImplementations[i], call.key)

\* ---- the memo map and the registry ----

\* C31: no two registered implementations share an (ExecutorType,
\* OperationType) pair, every memoized executor was constructed by the
\* implementation registered under its pair, and the executor a compliant
\* make returns was constructed by the implementation select chose in that
\* call.
C31_MemoizedExecutorIsOfSelectedImpl ==
    /\ \A i, j \in 1..Len(fullyconnectedImplementations) :
           i # j => << fullyconnectedImplementations[i].type,
                       fullyconnectedImplementations[i].operationType >>
                    # << fullyconnectedImplementations[j].type,
                         fullyconnectedImplementations[j].operationType >>
    /\ (call.op = "make" /\ call.compliant /\ call.outcome = "ok")
          => \E e \in factories :
                 /\ call.ret = ShellHandle(e)
                 /\ e.impl = call.sel.name

\* a compliant make that selects fullyconnected_dnnl and reuses its executor
\* while the memo map also holds the executor of convolution_1x1_dnnl
C31_Witness ==
    /\ call.op = "make" /\ call.compliant /\ call.outcome = "ok"
    /\ call.sel = DnnlFCImpl
    /\ \E e \in factories : e.impl = "convolution_1x1_dnnl"
    /\ \E e \in factories : e.impl = "fullyconnected_dnnl" /\ call.ret = ShellHandle(e)

\* ---- repeated coercion ----

RequiredLayouts(descs) ==
    /\ \A i \in 1..Len(descs.src) : descs.src[i].ncsp
    /\ descs.dst[1].ncsp

\* C32: starting from a Config whose descriptors have the required layout,
\* replacing the Config by the Config' of the same implementation again and
\* again reaches a Config reported compliant: a non-compliant answer returns
\* a Config' that differs from the Config it was given, the Config' of a
\* resubmission is reported compliant, and a compliant answer returns the
\* Config unchanged.
C32_CoercionTerminates ==
    ( /\ call.op \in {"resubmit", "recoerce"}
      /\ RequiredLayouts(call.submitted.descs) )
    => /\ ~call.compliant => /\ call.op = "resubmit"
                              /\ call.second # call.key
       /\ call.compliant => call.second = call.key
       /\ RequiredLayouts(call.key.descs)

\* a chain that needed a second resubmission before it was compliant
C32_Witness ==
    /\ call.op = "recoerce"
    /\ RequiredLayouts(call.submitted.descs)
    /\ call.steps = 1
    /\ call.compliant

\* ---- equality and hash ----

\* the comparison of attributes took no read through a null pointer
AttrsComparisonDefined == ~FCAttrsEqReadsNull(call.lhs, call.rhs)

\* C33: FCAttrs values that compare equal have equal hashes for every seed.
C33_EqualAttrsHashEqual ==
    (call.op = "FCAttrs::operator==" /\ AttrsComparisonDefined /\ call.equal)
        => \A seed \in Seeds : call.lhsHash[seed] = call.rhsHash[seed]

\* C37: DnnlFcKey and DnnlConvKey values that compare equal have equal
\* hashes, also when they hold distinct descriptor objects that are
\* structurally equal; a key equals itself, and lhs == rhs iff rhs == lhs.
C37_KeyHashConsistent ==
    call.op \in {"DnnlFcKey::operator==", "DnnlConvKey::operator=="} =>
        /\ call.equal => call.lhsHash = call.rhsHash
        /\ call.lhs = call.rhs => call.equal
        /\ call.equal <=> call.converse

\* equal keys with distinct, structurally equal source descriptor objects
C37_Witness ==
    /\ call.op \in {"DnnlFcKey::operator==", "DnnlConvKey::operator=="}
    /\ call.equal
    /\ call.lhs.src.id # call.rhs.src.id
    /\ call.lhs.src.md = call.rhs.src.md
    /\ call.lhsHash = call.rhsHash

(***************************************************************************)
(* Properties of DnnlFCExecutor (specification ExecutorSpec)               *)
(***************************************************************************)

\* the argument is a memory object the executor created in place of the
\* node's memory
IsSubstitute(arg) == arg.of = "" /\ arg # NoDnnlMemory

\* C34: when the src (dst) argument is the substitute the most recent update
\* bound because the descriptor was incompatible with the primitive's, an
\* execute runs the primitive with that argument's data handle set to the
\* buffer passed to that execute call.
C34_SubstituteHandleReset ==
    [][ (IsCall /\ call'.op = "execute") =>
          /\ IsSubstitute(executor.m_primArgs.src)
                => /\ call'.executed.src.handle = call'.memory.src.data
                   /\ call'.executed.src.desc = executor.m_primArgs.src.desc
          /\ IsSubstitute(executor.m_primArgs.dst)
                => /\ call'.executed.dst.handle = call'.memory.dst.data
                   /\ call'.executed.dst.desc = executor.m_primArgs.dst.desc ]_vars

\* an execute on another buffer than the one the substitute was created on
C34_Witness ==
    /\ call.op = "execute"
    /\ IsSubstitute(call.executed.src)
    /\ ~IsSubstitute(call.executed.dst)
    /\ call.executed.src.handle = "srcData2"
    /\ call.executed.dst.handle = "dstData1"
    /\ nCalls = 2

\* C35: an update that binds a primitive prepares the weights memory iff it
\* is the first one or the new primitive's weights descriptor is not
\* compatible with that of the primitive bound before; otherwise the weights
\* argument is left unchanged; the src, dst and bias arguments are rebound
\* on every such update.
C35_WeightsPreparedOnChange ==
    [][ (IsCall /\ call'.op = "update" /\ call'.outcome = "ok") =>
          /\ call'.prepared <=>
                \/ executor.m_primitive.null
                \/ executor.m_primitive.impl # call'.prim.impl
          /\ ~call'.prepared => executor'.m_primArgs.wei = executor.m_primArgs.wei
          /\ call'.prepared => executor'.m_primArgs.wei.desc = << "weights", call'.prim.impl >>
          /\ executor'.m_primArgs.src.handle = call'.memory.src.data
          /\ executor'.m_primArgs.dst.handle = call'.memory.dst.data
          /\ executor'.m_primArgs.bias.of = call'.memory.bias.name
          /\ executor'.m_primitive = call'.prim ]_vars

\* a second update, on other memory and another shape, that keeps the
\* weights of the first
C35_Witness ==
    /\ call.op = "update" /\ call.outcome = "ok"
    /\ ~call.prepared
    /\ nCalls = 2
    /\ executor.m_primArgs.wei.handle = "packed"
    /\ call.memory.src.name = "src2"
    /\ executor.m_primArgs.src.handle = "srcData2"

(***************************************************************************)
(* Properties of the sparse-weights attribute (specification SparseSpec)   *)
(***************************************************************************)

\* C36: the sparse-weights attribute is enabled only when the fraction of
\* zero weight elements is at least the minimum sparse rate, never when
\* that rate is 1.0, when the weights are not 2-D with both dims multiples
\* of 64, or when the types are not u8|i8 input with i8 weights.
C36_SparseOnlyAboveMinRate ==
    (call.op = "useSparseWeightsDecompression" /\ call.result) =>
        LET w == call.args.weightsInput
        IN  /\ w.zerosCount * 100 >= call.args.minSparseRate * (w.weiDims[1] * w.weiDims[2])
            /\ call.args.minSparseRate # 100
            /\ Len(w.weiDims) = 2 /\ w.weiDims[1] % 64 = 0 /\ w.weiDims[2] % 64 = 0
            /\ call.args.inputType \in {"u8", "i8"} /\ w.weightsType = "i8"

====
